---------------------------- MODULE Spec2Model ----------------------------
(***************************************************************************)
(* A model of the mapping state machine of react-spreadsheet-mapper        *)
(* (packages/spreadsheet-mapper/useSpreadsheetMapper.ts).                  *)
(*                                                                         *)
(* The hook's React state (useState cells), its ref (activeProcessingCount)*)
(* and the asynchronous processQueue / processSingleFile invocations that  *)
(* are suspended at an await are the variables.  JavaScript runs every     *)
(* handler and every continuation of an await to completion, so one action *)
(* is one such run.  Array indices are 1-based here, 0-based in the code.  *)
(* JavaScript objects with optional keys are records whose DOMAIN holds    *)
(* the keys that are present.                                              *)
(***************************************************************************)
EXTENDS Integers, Sequences, FiniteSets, TLC

VARIABLES
    map,                   \* useState<MappedField[]>            (line 40)
    errors,                \* useState<MappingError[]>           (line 41)
    processedFiles,        \* useState<SpreadsheetData[]>        (line 42)
    fileProcessingStates,  \* useState<FileProcessingState[]>    (line 43)
    isProcessing,          \* useState(false)                    (line 44)
    performanceMetrics,    \* useState<PerformanceMetrics[]>     (line 45)
    activeProcessingCount, \* useRef(0)                          (line 48)
    props,                 \* the hook's arguments: config, onAnnounce
    queues,                \* processQueue invocations that have not returned
    calls,                 \* SpreadSheetService calls that have not settled
    announced,             \* the last message handed to onAnnounce
    finished,              \* the arguments onFinish was called with, in order
    rateLimitState,        \* SpreadsheetService: Map<string, RateLimitState> (line 40)
    now,                   \* what Date.now() returns
    isTestMode,            \* SpreadsheetService: NODE_ENV / VITEST say "test"
    security,              \* config.security the application passes to a call
    admitted,              \* per client and time: the calls checkRateLimit let through
    settled,               \* how the last SpreadSheetService call settled
    request,               \* the arguments of the function call under study
    response               \* what that call returned or threw

vars == <<map, errors, processedFiles, fileProcessingStates,
          isProcessing, performanceMetrics, activeProcessingCount, props,
          queues, calls, announced, finished,
          rateLimitState, now, isTestMode, security, admitted, settled,
          request, response>>

\* The state of the SpreadsheetService module and of its environment.
serviceVars == <<rateLimitState, now, isTestMode, security, admitted, settled,
                 request, response>>

\* The state of one hook instance.
hookVars == <<map, errors, processedFiles, fileProcessingStates,
              isProcessing, performanceMetrics, activeProcessingCount, props,
              queues, calls, announced, finished>>

-----------------------------------------------------------------------------
(* Bounds of the model.                                                    *)

MaxFiles == 3           \* longest list handed to handleFiles, one batch at a time

MaxConcurrent == 2      \* largest maxConcurrentFiles, one batch at a time

MaxOverlapFiles == 2    \* longest list when batches may overlap

MaxOverlapConcurrent == 1  \* largest maxConcurrentFiles when batches may overlap

MaxLive == 2            \* processQueue invocations alive at the same time

MaxTime == 2            \* Date.now() runs from 0 to MaxTime

MaxPerWindow == 2       \* largest security.maxFilesPerWindow an application passes

MaxWindow == 1          \* the security.rateLimitWindow the application passes

MaxPerTick == 2         \* calls one client gets through at one reading of the clock

-----------------------------------------------------------------------------
(* JavaScript helpers.                                                     *)

\* { ...r, ...u }: the keys of both, u's values winning.
Spread(r, u) ==
    [x \in (DOMAIN r) \cup (DOMAIN u) |-> IF x \in DOMAIN u THEN u[x] ELSE r[x]]

\* A state update that does not compare the index.
MapEvery(prev, at, u) == [j \in 1..Len(prev) |-> Spread(prev[j], u)]

\* prev.map((state, index) => index === at ? { ...state, ...u } : state)
MapAt(prev, at, u) ==
    [j \in 1..Len(prev) |-> IF j = at THEN Spread(prev[j], u) ELSE prev[j]]

RECURSIVE MapAtAll(_, _, _, _)
\* MapAt applied for at = from, from + 1, ..., to, in that order.
MapAtAll(prev, from, to, u) ==
    IF from > to THEN prev
    ELSE MapAtAll(MapAt(prev, from, u), from + 1, to, u)

\* array.filter(keep).length
CountStatus(s, status) == Cardinality({j \in 1..Len(s) : s[j].status = status})

-----------------------------------------------------------------------------
(* The files of the model and what SpreadSheetService settles with.        *)

Roster == <<"a.csv", "b.csv", "c.csv">>

\* The list of n files that starts at the roster's entry `first`.
Batch(first, n) ==
    [j \in 1..n |-> Roster[((first + j - 2) % Len(Roster)) + 1]]

\* The lists handed to handleFiles: a.csv, b.csv, ... up to `longest` files, and
\* b.csv alone (another file at an index the longer lists use).
Batches(longest) == {Batch(1, n) : n \in 1..longest} \cup {Batch(2, 1)}

FileSize(f) == CASE f = "a.csv" -> 1 [] f = "b.csv" -> 2 [] OTHER -> 3

MetricsOf(f) == [fileSize |-> FileSize(f), rowCount |-> 1]

\* The SpreadsheetData a successful call for file f resolves with.
DataOf(f) ==
    IF props.enableMetrics
    THEN [name |-> f, metrics |-> MetricsOf(f)]
    ELSE [name |-> f]

\* What a failed call for file f rejects with: an Error with a message, or
\* (a FileReader error event that slipped through) another value.
RejectionOf(f) ==
    CASE f = "a.csv" ->
           [isError |-> TRUE,
            message |-> "File processing failed. Please check the file format and try again."]
      [] f = "b.csv" ->
           [isError |-> TRUE,
            message |-> "An unexpected error occurred during file processing."]
      [] OTHER -> [isError |-> FALSE]

\* error instanceof Error ? error.message : 'Unknown error occurred'
ErrorMessage(error) ==
    IF error.isError THEN error.message ELSE "Unknown error occurred"

-----------------------------------------------------------------------------
(* announce                                                                *)

Announce(message, type) ==
    announced' = IF props.onAnnounce
                 THEN [message |-> message, type |-> type]
                 ELSE announced

-----------------------------------------------------------------------------
(* processQueue and processSingleFile                                      *)

RECURSIVE StartCount(_, _, _)
\* How many files the for loop of processQueue starts from index i on before
\* it has to wait (or runs out of files), the counter being `active`.
StartCount(i, n, active) ==
    IF i > n THEN 0
    ELSE IF active >= props.maxConcurrentFiles THEN 0
    ELSE 1 + StartCount(i + 1, n, active + 1)

\* The synchronous part of processSingleFile(file, fileIndex): the state
\* update to 'processing', then the call of SpreadSheetService.
StartedCalls(batch, files, from, to) ==
    {[batch |-> batch, fileIndex |-> j, file |-> files[j]] : j \in from..to}

\* The for loop of processQueue run from index q.i until it waits or ends,
\* on the file states `states`.
RunQueue(q, states) ==
    LET n == StartCount(q.i, Len(q.files), activeProcessingCount)
        last == q.i + n - 1
    IN  /\ activeProcessingCount' = activeProcessingCount + n
        /\ fileProcessingStates' =
               MapAtAll(states, q.i, last, [status |-> "processing"])
        /\ calls' = calls \cup StartedCalls(q.batch, q.files, q.i, last)
        /\ queues' = (queues \ {q}) \cup
               {[q EXCEPT !.i = last + 1,
                          !.pc = IF last = Len(q.files) THEN "join" ELSE "wait"]}

\* The identities a new processQueue invocation can take: those no live queue
\* or call holds.
FreeIds ==
    (1..MaxLive) \ ({q.batch : q \in queues} \cup {c.batch : c \in calls})

NewId == CHOOSE id \in FreeIds : \A other \in FreeIds : id <= other

\* A handleFiles that does not clear the errors of the batch before.
HandleFilesKeepingErrors(files) ==
    IF Len(files) = 0 THEN UNCHANGED vars
    ELSE
        /\ FreeIds # {}
        /\ processedFiles' = <<>>
        /\ performanceMetrics' = <<>>
        /\ isProcessing' = TRUE
        /\ Announce(<<"Starting to process", Len(files)>>, "info")
        /\ RunQueue([batch |-> NewId, files |-> files, i |-> 1, pc |-> "wait"],
                    [j \in 1..Len(files) |-> [file |-> files[j], status |-> "pending"]])
        /\ UNCHANGED <<map, finished, props, errors, serviceVars>>

handleFiles(files) ==
    IF Len(files) = 0 THEN UNCHANGED vars
    ELSE
        /\ FreeIds # {}
        /\ processedFiles' = <<>>
        /\ errors' = <<>>
        /\ performanceMetrics' = <<>>
        /\ isProcessing' = TRUE
        /\ Announce(<<"Starting to process", Len(files)>>, "info")
        /\ RunQueue([batch |-> NewId, files |-> files, i |-> 1, pc |-> "wait"],
                    [j \in 1..Len(files) |-> [file |-> files[j], status |-> "pending"]])
        /\ UNCHANGED <<map, finished, props, serviceVars>>

\* The 100 ms timer of a waiting processQueue fires: the while loop tests the
\* counter again and the for loop goes on.
Poll(q) ==
    /\ q.pc = "wait"
    /\ RunQueue(q, fileProcessingStates)
    /\ UNCHANGED <<map, finished, props, errors, processedFiles,
                   performanceMetrics, isProcessing, announced, serviceVars>>

\* await Promise.allSettled(promises) returns: every call of this queue settled.
Join(q) ==
    /\ q.pc = "join"
    /\ \A c \in calls : c.batch # q.batch
    /\ isProcessing' = FALSE
    /\ LET initialStates ==
               [j \in 1..Len(q.files) |-> [file |-> q.files[j], status |-> "pending"]]
           successCount == CountStatus(initialStates, "completed")
           errorCount == CountStatus(initialStates, "error")
       IN  IF errorCount = 0
           THEN Announce(<<"All files processed successfully", Len(q.files)>>, "success")
           ELSE Announce(<<"Processing completed", successCount, errorCount>>, "info")
    /\ queues' = queues \ {q}
    /\ UNCHANGED <<map, finished, props, errors, processedFiles,
                   performanceMetrics, fileProcessingStates,
                   activeProcessingCount, calls, serviceVars>>

\* processSingleFile after its await: SpreadSheetService resolved.
Resolve(c) ==
    LET data == DataOf(c.file)
    IN  /\ c \in calls
        /\ fileProcessingStates' =
               MapAt(fileProcessingStates, c.fileIndex,
                     [status |-> "completed", data |-> data])
        /\ processedFiles' = Append(processedFiles, data)
        /\ performanceMetrics' =
               IF "metrics" \in DOMAIN data
               THEN Append(performanceMetrics, data.metrics)
               ELSE performanceMetrics
        /\ Announce(<<"File processed successfully", c.file>>, "success")
        /\ activeProcessingCount' = activeProcessingCount - 1
        /\ calls' = calls \ {c}
        /\ UNCHANGED <<map, finished, props, errors, isProcessing,
                       queues, serviceVars>>

\* processSingleFile after its await: SpreadSheetService rejected.
Reject(c) ==
    LET errorMessage == ErrorMessage(RejectionOf(c.file))
    IN  /\ c \in calls
        /\ fileProcessingStates' =
               MapAt(fileProcessingStates, c.fileIndex,
                     [status |-> "error", error |-> errorMessage])
        /\ Announce(<<"File processing failed", c.file, errorMessage>>, "error")
        /\ errors' = Append(errors,
               [option |-> [label |-> c.file, value |-> c.file],
                message |-> <<"File processing failed", errorMessage>>,
                type |-> "security"])
        /\ activeProcessingCount' = activeProcessingCount - 1
        /\ calls' = calls \ {c}
        /\ UNCHANGED <<map, finished, props, processedFiles,
                       performanceMetrics, isProcessing, queues, serviceVars>>

\* A reset that leaves the in-flight counter alone.
ResetStateOnly ==
    /\ map' = <<>>
    /\ errors' = <<>>
    /\ processedFiles' = <<>>
    /\ fileProcessingStates' = <<>>
    /\ performanceMetrics' = <<>>
    /\ isProcessing' = FALSE
    /\ Announce(<<"All data has been reset">>, "info")
    /\ UNCHANGED <<activeProcessingCount, finished, props, queues, calls, serviceVars>>

reset ==
    /\ map' = <<>>
    /\ errors' = <<>>
    /\ processedFiles' = <<>>
    /\ fileProcessingStates' = <<>>
    /\ performanceMetrics' = <<>>
    /\ isProcessing' = FALSE
    /\ activeProcessingCount' = 0
    /\ Announce(<<"All data has been reset">>, "info")
    /\ UNCHANGED <<finished, props, queues, calls, serviceVars>>

-----------------------------------------------------------------------------
(* The mapping operations: updateOrCreate, save, finish.                   *)

\* The value of an optional key, `undefined` when the object has no such key.
Undefined == "<undefined>"

Get(r, key) == IF key \in DOMAIN r THEN r[key] ELSE Undefined

\* !x for a string or undefined
Falsy(x) == x = Undefined \/ x = ""

\* item.value === value && (!fileName || !item.fileName || item.fileName === fileName)
Matches(item, value, fileName) ==
    /\ item.value = value
    /\ \/ Falsy(fileName)
       \/ Falsy(Get(item, "fileName"))
       \/ Get(item, "fileName") = fileName

\* list.findIndex(item => Matches(item, value, fileName)), 0 for the code's -1.
FindIndex(list, value, fileName) ==
    IF \E j \in 1..Len(list) : Matches(list[j], value, fileName)
    THEN CHOOSE j \in 1..Len(list) :
             /\ Matches(list[j], value, fileName)
             /\ \A h \in 1..(j - 1) : ~Matches(list[h], value, fileName)
    ELSE 0

\* An upsert that drops the matching entry and puts the record at the end.
UpsertAtEnd(seen, prev, record) ==
    LET index == FindIndex(seen, record.value, Get(record, "fileName"))
        kept == IF index = 0 THEN Len(prev) ELSE Len(prev) - 1
    IN  Append([j \in 1..kept |-> IF index # 0 /\ j >= index THEN prev[j + 1] ELSE prev[j]],
               record)

\* An upsert that keeps the saved flag of the entry it replaces.
UpsertKeepingSaved(seen, prev, record) ==
    LET index == FindIndex(seen, record.value, Get(record, "fileName"))
    IN  IF index = 0
        THEN Append(prev, record)
        ELSE [prev EXCEPT ![index] =
                 IF "saved" \in DOMAIN prev[index]
                 THEN Spread(record, [saved |-> prev[index].saved])
                 ELSE record]

\* updateOrCreate(record) called by a handler that closed over the map `seen`,
\* its state update applied to the state `prev`.
UpdateOrCreateOn(seen, prev, record) ==
    LET index == FindIndex(seen, record.value, Get(record, "fileName"))
    IN  IF index = 0
        THEN Append(prev, record)
        ELSE [prev EXCEPT ![index] = record]

\* A save that only ever sets the flag.
AlwaysSaved(currentItem) == TRUE

\* !(currentItem.saved && currentItem.saved === true)
ToggledSaved(currentItem) == ~("saved" \in DOMAIN currentItem /\ currentItem.saved = TRUE)

\* A save that flips every matching entry, not only the first.
SaveEveryMatch(seen, prev, value, fileName) ==
    [j \in 1..Len(prev) |->
        IF j <= Len(seen) /\ Matches(seen[j], value, fileName)
        THEN Spread(prev[j], [saved |-> ~("saved" \in DOMAIN prev[j] /\ prev[j].saved)])
        ELSE prev[j]]

\* save(value, fileName) called by a handler that closed over the map `seen`,
\* its state update applied to the state `prev`.
SaveOn(seen, prev, value, fileName) ==
    LET index == FindIndex(seen, value, fileName)
    IN  IF index # 0 /\ index <= Len(prev)
        THEN [prev EXCEPT ![index] = Spread(prev[index], [saved |-> ToggledSaved(prev[index])])]
        ELSE prev

updateOrCreate(record) ==
    LET index == FindIndex(map, record.value, Get(record, "fileName"))
    IN  /\ map' = UpdateOrCreateOn(map, map, record)
        /\ IF index = 0
           THEN Announce(<<"Field mapping created", record.field, record.value>>, "success")
           ELSE Announce(<<"Field mapping updated", record.field, record.value>>, "info")
        /\ UNCHANGED <<errors, processedFiles, fileProcessingStates, isProcessing,
                       performanceMetrics, activeProcessingCount, props, queues,
                       calls, finished, serviceVars>>

save(value, fileName) ==
    LET index == FindIndex(map, value, fileName)
    IN  /\ map' = SaveOn(map, map, value, fileName)
        /\ IF index # 0
           THEN Announce(<<"Field saved or unsaved", map[index].field,
                           ToggledSaved(map[index])>>,
                         IF ToggledSaved(map[index]) THEN "success" ELSE "info")
           ELSE UNCHANGED announced
        /\ UNCHANGED <<errors, processedFiles, fileProcessingStates, isProcessing,
                       performanceMetrics, activeProcessingCount, props, queues,
                       calls, finished, serviceVars>>

\* The errors finish() computes: one per required option no map entry names.
FinishErrors(list) ==
    LET missing(o) == o.required /\ ~\E j \in 1..Len(list) : list[j].value = o.value
        F[n \in 0..Len(props.options)] ==
            IF n = 0 THEN <<>>
            ELSE IF missing(props.options[n])
                 THEN Append(F[n - 1],
                             [option |-> props.options[n],
                              message |-> <<props.options[n].label, "is required">>,
                              type |-> "validation"])
                 ELSE F[n - 1]
    IN  F[Len(props.options)]

finish ==
    /\ errors' = FinishErrors(map)
    /\ IF Len(FinishErrors(map)) > 0
       THEN Announce(<<"Validation failed", Len(FinishErrors(map))>>, "error")
       ELSE Announce(<<"All required fields are mapped successfully">>, "success")
    /\ UNCHANGED <<map, processedFiles, fileProcessingStates, isProcessing,
                   performanceMetrics, activeProcessingCount, props, queues,
                   calls, finished, serviceVars>>

\* A filter that lets the entries of every file through.
AppliesToAny(item, data) == TRUE

\* item => !item.fileName || item.fileName === data.name
AppliesTo(item, data) ==
    Falsy(Get(item, "fileName")) \/ Get(item, "fileName") = data.name

\* map.find(item => item.value === option.value && AppliesTo(item, data)),
\* the index of the entry found, 0 for undefined.
FindFor(list, option, data) ==
    IF \E j \in 1..Len(list) : list[j].value = option.value /\ AppliesTo(list[j], data)
    THEN CHOOSE j \in 1..Len(list) :
             /\ list[j].value = option.value /\ AppliesTo(list[j], data)
             /\ \A h \in 1..(j - 1) :
                    ~(list[h].value = option.value /\ AppliesTo(list[h], data))
    ELSE 0

\* !mappedField || !mappedField.saved
NotSavedFor(list, option, data) ==
    LET found == FindFor(list, option, data)
    IN  \/ found = 0
        \/ "saved" \notin DOMAIN list[found]
        \/ ~list[found].saved

\* The errors handleFileFinish(data) computes, in options order.
FileFinishErrors(list, data) ==
    LET F[n \in 0..Len(props.options)] ==
            IF n = 0 THEN <<>>
            ELSE IF props.options[n].required /\ NotSavedFor(list, props.options[n], data)
                 THEN Append(F[n - 1],
                             [option |-> props.options[n],
                              message |-> <<props.options[n].label,
                                            "is required and must be saved">>,
                              type |-> "validation"])
                 ELSE F[n - 1]
    IN  F[Len(props.options)]

\* map.filter(item => AppliesTo(item, data)).map(({ field, value }) => ({ field, value }))
FileFinishResult(list, data) ==
    LET kept == SelectSeq(list, LAMBDA item : AppliesTo(item, data))
    IN  [j \in 1..Len(kept) |-> [field |-> kept[j].field, value |-> kept[j].value]]

handleFileFinish(data) ==
    LET validationErrors == FileFinishErrors(map, data)
    IN  /\ IF Len(validationErrors) > 0
           THEN /\ errors' = validationErrors
                /\ Announce(<<"Cannot finish", Len(validationErrors)>>, "error")
                /\ UNCHANGED finished
           ELSE /\ errors' = <<>>
                /\ Announce(<<"Mapping completed successfully">>, "success")
                /\ finished' = Append(finished,
                                      Spread(data, [map |-> FileFinishResult(map, data)]))
        /\ UNCHANGED <<map, processedFiles, fileProcessingStates, isProcessing,
                       performanceMetrics, activeProcessingCount, props, queues,
                       calls, serviceVars>>

-----------------------------------------------------------------------------
(* The hook after construction.                                            *)

Options ==
    << [label |-> "Name", value |-> "name", required |-> TRUE],
       [label |-> "Email", value |-> "email", required |-> TRUE],
       [label |-> "Age", value |-> "age", required |-> FALSE] >>

Clients == {"default", "other"}

\* The security settings an application passes (types.ts, SecurityConfig);
\* the keys it leaves out take the defaults of DEFAULT_SECURITY_CONFIG.
SecurityConfigs ==
    [maxFilesPerWindow : 0..MaxPerWindow, rateLimitWindow : {MaxWindow}]

\* No function of the service is being studied on its own.
None == [op |-> "none"]

Idle == request = None /\ response = None

\* The state after the SpreadsheetService module has been loaded: the table
\* of line 40 is empty and nothing has been submitted.
Loaded(testing, settings) ==
    /\ rateLimitState = {}
    /\ now = 0
    /\ isTestMode = testing
    /\ security = settings
    /\ admitted = [clientId \in Clients |-> [at \in 0..MaxTime |-> 0]]
    /\ settled = [state |-> "none"]

\* The state of a hook instance after useSpreadsheetMapper(props) has run
\* for the first time.
Mounted(p) ==
    /\ props = p
    /\ map = <<>>
    /\ errors = <<>>
    /\ processedFiles = <<>>
    /\ fileProcessingStates = <<>>
    /\ isProcessing = FALSE
    /\ performanceMetrics = <<>>
    /\ activeProcessingCount = 0
    /\ queues = {}
    /\ calls = {}
    /\ announced = [message |-> <<>>, type |-> "none"]
    /\ finished = <<>>

\* The state after useSpreadsheetMapper(props) has been constructed.
Constructed(p) ==
    /\ Mounted(p)
    /\ Loaded(FALSE, [maxFilesPerWindow |-> MaxPerWindow, rateLimitWindow |-> MaxWindow])
    /\ Idle

Props(largestCap, announcing) ==
    [maxConcurrentFiles : 0..largestCap,
     enableMetrics : BOOLEAN,
     onAnnounce : {announcing},
     options : {Options}]

\* No processQueue invocation is alive and no call is in flight.
Quiescent == queues = {} /\ calls = {}

Settle ==
    \/ \E c \in calls : Resolve(c)
    \/ \E c \in calls : Reject(c)

-----------------------------------------------------------------------------
(* Spec: the batch machine under every interleaving of handleFiles, reset,  *)
(* the queues' timers and the settling calls.                              *)

Init == \E p \in Props(MaxOverlapConcurrent, FALSE) : Constructed(p)

Next ==
    \/ \E files \in Batches(MaxOverlapFiles) \cup {<<>>} : handleFiles(files)
    \/ \E q \in queues : Poll(q)
    \/ \E q \in queues : Join(q)
    \/ Settle
    \/ reset

Spec == Init /\ [][Next]_vars

\* The timers fire, allSettled returns, and every call settles.
Fairness ==
    /\ WF_vars(\E q \in queues : Poll(q))
    /\ WF_vars(\E q \in queues : Join(q))
    /\ WF_vars(Settle)

SpecFair == Spec /\ Fairness

-----------------------------------------------------------------------------
(* SpecOneBatch: handleFiles and reset are called only while no batch is   *)
(* in flight.                                                              *)

InitOneBatch == \E p \in Props(MaxConcurrent, FALSE) : Constructed(p)

NextOneBatch ==
    \/ Quiescent /\ \E files \in Batches(MaxFiles) \cup {<<>>} : handleFiles(files)
    \/ Quiescent /\ reset
    \/ \E q \in queues : Poll(q)
    \/ \E q \in queues : Join(q)
    \/ Settle

SpecOneBatch == InitOneBatch /\ [][NextOneBatch]_vars

SpecOneBatchFair == SpecOneBatch /\ Fairness

-----------------------------------------------------------------------------
(* Properties of the batch machine.                                        *)

Terminal(s) == s.status \in {"completed", "error"}

\* C1: while handleFiles drains a batch with maxConcurrentFiles = k, never are
\* more than k files in status 'processing'.
C1_AtMostKProcessing ==
    CountStatus(fileProcessingStates, "processing") <= props.maxConcurrentFiles

\* One file state's step along pending -> processing -> completed | error;
\* a completed or failed file's state does not change at all.
LifecycleStep(s, t) ==
    \/ t = s
    \/ /\ s.status = "pending"
       /\ t = Spread(s, [status |-> "processing"])
    \/ /\ s.status = "processing"
       /\ t.status \in {"completed", "error"}
       /\ t.file = s.file

\* A step of a batch in flight: a timer, a settling call, allSettled returning.
StepWithinBatch ==
    \/ \E q \in queues : Poll(q)
    \/ \E q \in queues : Join(q)
    \/ Settle

\* C2: within one batch (no handleFiles or reset call while it is in flight)
\* every file's state moves only along pending -> processing -> completed or
\* pending -> processing -> error, and once completed or error its status,
\* data and error never change again.
C2_Lifecycle ==
    [][StepWithinBatch =>
          /\ Len(fileProcessingStates') = Len(fileProcessingStates)
          /\ \A j \in 1..Len(fileProcessingStates) :
                 LifecycleStep(fileProcessingStates[j], fileProcessingStates'[j])]_vars

\* C2's case: of three files the first is still processing while the second
\* has failed and the third, started last, has completed.
C2_Witness ==
    /\ Len(fileProcessingStates) = 3
    /\ fileProcessingStates[1].status = "processing"
    /\ fileProcessingStates[2].status = "error"
    /\ fileProcessingStates[3].status = "completed"

\* C3: a 'completed' entry holds the SpreadsheetData produced from its own
\* file, an 'error' entry the failure of its own file.
C3_KeyedByFile ==
    \A j \in 1..Len(fileProcessingStates) :
        LET s == fileProcessingStates[j]
        IN  /\ s.status = "completed" =>
                  "data" \in DOMAIN s /\ s.data = DataOf(s.file)
            /\ s.status = "error" =>
                  "error" \in DOMAIN s /\ s.error = ErrorMessage(RejectionOf(s.file))

\* Some submitted file is still pending or processing, or the batch is marked
\* as processing.
Busy ==
    \/ isProcessing
    \/ \E j \in 1..Len(fileProcessingStates) : ~Terminal(fileProcessingStates[j])

\* Every file of the batch is completed or error and isProcessing is false.
Settled ==
    /\ ~isProcessing
    /\ \A j \in 1..Len(fileProcessingStates) : Terminal(fileProcessingStates[j])

\* C4: after handleFiles(files) with a non-empty list, given that every call
\* settles, eventually every file is completed or error and isProcessing is
\* false, for every configured maxConcurrentFiles.
C4_BatchSettles == Busy ~> Settled

\* C4 for a cap of at least one.
C4_SettlesWithPositiveCap == (props.maxConcurrentFiles >= 1 /\ Busy) ~> Settled

\* C5: if some submitted file is still pending or processing, isProcessing is
\* true.
C5_ProcessingWhileUnsettled ==
    (\E j \in 1..Len(fileProcessingStates) : ~Terminal(fileProcessingStates[j]))
        => isProcessing

\* C6: when process() rejects for a file, the state that becomes 'error' (with
\* the rejection message) is that file's, exactly one security error naming
\* the file is appended, and no other file's state, call or queue is touched.
C6_FailureIsolated ==
    [][\A c \in calls : Reject(c) =>
          /\ \A j \in 1..Len(fileProcessingStates) :
                 IF fileProcessingStates'[j] # fileProcessingStates[j]
                    \/ (j = c.fileIndex /\ fileProcessingStates[j].file = c.file)
                 THEN /\ fileProcessingStates[j].file = c.file
                      /\ fileProcessingStates'[j].file = c.file
                      /\ fileProcessingStates'[j].status = "error"
                      /\ fileProcessingStates'[j].error = ErrorMessage(RejectionOf(c.file))
                 ELSE TRUE
          /\ Len(errors') = Len(errors) + 1
          /\ SubSeq(errors', 1, Len(errors)) = errors
          /\ errors'[Len(errors')].type = "security"
          /\ errors'[Len(errors')].option.value = c.file
          /\ calls' = calls \ {c}
          /\ queues' = queues]_vars

-----------------------------------------------------------------------------
(* The mapping operations on a hook that also processes one file.          *)

MaxMap == 2

Columns == {"Full Name", "Contact"}

Values == {"name"}

FileNames == {"a.csv", "b.csv"}

Records ==
    [field : Columns, value : Values]
        \cup [field : Columns, value : Values, fileName : FileNames]

InitMap ==
    \E p \in Props(1, TRUE) :
        /\ p.maxConcurrentFiles = 1
        /\ ~p.enableMetrics
        /\ Constructed(p)

NextMap ==
    \/ \E record \in Records :
           /\ Len(UpdateOrCreateOn(map, map, record)) <= MaxMap
           /\ updateOrCreate(record)
    \/ \E value \in Values, fileName \in FileNames \cup {Undefined} :
           save(value, fileName)
    \/ finish
    \/ Quiescent /\ reset
    \/ Quiescent /\ handleFiles(Batch(1, 1))
    \/ Settle
    \/ \E q \in queues : Join(q)

SpecMap == InitMap /\ [][NextMap]_vars

-----------------------------------------------------------------------------
(* Properties of the mapping operations.                                   *)

SameKey(a, b) == a.value = b.value /\ Get(a, "fileName") = Get(b, "fileName")

\* C7: map holds at most one MappedField per (value, fileName) pair, an absent
\* fileName counting as a fileName of its own.
C7_OnePerValueAndFile ==
    \A i, j \in 1..Len(map) : SameKey(map[i], map[j]) => i = j

\* Same value and a compatible fileName: equal, or absent on either side.
Compatible(item, record) ==
    /\ item.value = record.value
    /\ \/ Get(item, "fileName") = Get(record, "fileName")
       \/ Get(item, "fileName") = Undefined
       \/ Get(record, "fileName") = Undefined

HookStateUnchanged ==
    UNCHANGED <<errors, processedFiles, fileProcessingStates, isProcessing,
                performanceMetrics>>

\* C8: updateOrCreate(record) replaces the first entry of the same value and a
\* compatible fileName by record, at its position, keeping the length and
\* every other entry; with no such entry it appends record; nothing else
\* changes.
C8_Upsert ==
    [][\A record \in Records : updateOrCreate(record) =>
          /\ HookStateUnchanged
          /\ IF \E j \in 1..Len(map) : Compatible(map[j], record)
             THEN /\ Len(map') = Len(map)
                  /\ \A j \in 1..Len(map) :
                         map'[j] = IF /\ Compatible(map[j], record)
                                      /\ \A h \in 1..(j - 1) : ~Compatible(map[h], record)
                                   THEN record
                                   ELSE map[j]
             ELSE map' = Append(map, record)]_vars

\* C8's case: of two entries for the same value the record without fileName
\* has just replaced the first, the second is still the other file's.
C8_Witness ==
    /\ announced.type = "info"
    /\ announced.message[1] = "Field mapping updated"
    /\ Len(map) = 2
    /\ map[1] = [field |-> announced.message[2], value |-> announced.message[3]]
    /\ map[2].value = map[1].value
    /\ Get(map[2], "fileName") = "b.csv"

IsSaved(item) == "saved" \in DOMAIN item /\ item.saved = TRUE

\* C9: on an existing mapping each save flips saved (absent or false -> true,
\* true -> false), and a second save in succession flips it back.
C9_SaveToggles ==
    [][\A value \in Values, fileName \in FileNames \cup {Undefined} :
          (save(value, fileName) /\ FindIndex(map, value, fileName) # 0) =>
              LET j == FindIndex(map, value, fileName)
                  again == SaveOn(map', map', value, fileName)
              IN  /\ map'[j].saved = ~IsSaved(map[j])
                  /\ FindIndex(map', value, fileName) = j
                  /\ again[j].saved = IsSaved(map[j])]_vars

\* C9's case: a mapping that was saved has just been unsaved by a second save.
C9_Witness ==
    /\ announced.message = <<"Field saved or unsaved", "Contact", FALSE>>
    /\ \E j \in 1..Len(map) :
           /\ map[j].field = "Contact"
           /\ "saved" \in DOMAIN map[j]
           /\ map[j].saved = FALSE

\* C10: save(value, fileName) changes the saved flag of one matching entry and
\* nothing else: not that entry's field, value or fileName, not the order or
\* length of map, no other entry, not errors or processedFiles; with no
\* matching entry the whole state is unchanged.
C10_SaveFrame ==
    [][\A value \in Values, fileName \in FileNames \cup {Undefined} :
          save(value, fileName) =>
              IF \E j \in 1..Len(map) : Compatible(map[j], [value |-> value, fileName |-> fileName])
              THEN /\ HookStateUnchanged
                   /\ Len(map') = Len(map)
                   /\ \E j \in 1..Len(map) :
                          /\ Compatible(map[j], [value |-> value, fileName |-> fileName])
                          /\ DOMAIN map'[j] = DOMAIN map[j] \cup {"saved"}
                          /\ \A key \in DOMAIN map[j] \ {"saved"} : map'[j][key] = map[j][key]
                          /\ \A h \in 1..Len(map) : h # j => map'[h] = map[h]
              ELSE UNCHANGED vars]_vars

\* C10's case: the second of two mappings has just been saved while errors and
\* processedFiles are not empty.
C10_Witness ==
    /\ Len(announced.message) = 3
    /\ announced.message[1] = "Field saved or unsaved"
    /\ Len(map) = 2
    /\ ~IsSaved(map[1])
    /\ IsSaved(map[2])
    /\ Len(errors) > 0
    /\ Len(processedFiles) > 0

-----------------------------------------------------------------------------
(* Mapping, validating and finishing a file.                               *)

MaxFinished == 1

\* The options of the examples, and the same without the second required one.
OptionLists == {Options, <<Options[1], Options[3]>>}

InitFinish ==
    \E p \in [maxConcurrentFiles : {1}, enableMetrics : {FALSE},
              onAnnounce : {TRUE}, options : OptionLists] :
        Constructed(p)

NextFinish ==
    \/ \E record \in Records :
           /\ Len(UpdateOrCreateOn(map, map, record)) <= MaxMap
           /\ updateOrCreate(record)
    \/ \E value \in Values, fileName \in FileNames \cup {Undefined} :
           save(value, fileName)
    \/ finish
    \/ \E file \in FileNames :
           /\ Len(finished) < MaxFinished \/ Len(FileFinishErrors(map, DataOf(file))) > 0
           /\ handleFileFinish(DataOf(file))
    \/ reset

SpecFinish == InitFinish /\ [][NextFinish]_vars

\* The option has a saved mapping applicable to the file: an entry with the
\* option's value, saved = true, and fileName absent or the file's name.
SavedFor(option, file) ==
    \E j \in 1..Len(map) :
        /\ map[j].value = option.value
        /\ IsSaved(map[j])
        /\ Get(map[j], "fileName") \in {Undefined, file}

\* The required options without a saved mapping applicable to the file.
MissingFor(file) ==
    SelectSeq(props.options, LAMBDA o : o.required /\ ~SavedFor(o, file))

\* errs is one validation error per option of missing, in that order.
OnePerOption(errs, missing) ==
    /\ Len(errs) = Len(missing)
    /\ \A n \in 1..Len(missing) :
           errs[n].type = "validation" /\ errs[n].option = missing[n]

PairsFor(file) ==
    LET kept == SelectSeq(map, LAMBDA item : Get(item, "fileName") \in {Undefined, file})
    IN  [j \in 1..Len(kept) |-> [field |-> kept[j].field, value |-> kept[j].value]]

MissingSaved ==
    SelectSeq(props.options,
              LAMBDA o : o.required /\ ~\E j \in 1..Len(map) :
                                           map[j].value = o.value /\ IsSaved(map[j]))

C13_FinishRequiresMapped ==
    [][finish =>
          OnePerOption(errors',
                       SelectSeq(props.options,
                                 LAMBDA o : o.required /\ ~\E j \in 1..Len(map) :
                                                              map[j].value = o.value))]_vars

-----------------------------------------------------------------------------
(* reset() and handleFiles() at any moment of mapping and processing.       *)

InitReset ==
    \E p \in [maxConcurrentFiles : 0..MaxOverlapConcurrent, enableMetrics : {TRUE},
              onAnnounce : {TRUE}, options : {Options}] :
        Constructed(p)

\* The per-file mappings of one column.
ResetRecords ==
    {record \in Records : record.field = "Contact" /\ "fileName" \in DOMAIN record}

NextReset ==
    \/ \E record \in ResetRecords :
           /\ Len(UpdateOrCreateOn(map, map, record)) <= MaxMap
           /\ updateOrCreate(record)
    \/ \E value \in Values, fileName \in FileNames \cup {Undefined} :
           save(value, fileName)
    \/ \E files \in Batches(MaxOverlapFiles) \cup {<<>>} :
           Quiescent /\ handleFiles(files)
    \/ \E q \in queues : Poll(q)
    \/ Settle
    \/ \E q \in queues : Join(q)
    \/ reset

SpecReset == InitReset /\ [][NextReset]_vars

\* C14: immediately after reset(), from any reachable state, map, errors,
\* processedFiles, fileProcessingStates and performanceMetrics are empty,
\* isProcessing is false and the in-flight counter is 0.
C14_ResetClears ==
    [][reset =>
          /\ map' = <<>>
          /\ errors' = <<>>
          /\ processedFiles' = <<>>
          /\ fileProcessingStates' = <<>>
          /\ performanceMetrics' = <<>>
          /\ isProcessing' = FALSE
          /\ activeProcessingCount' = 0]_vars

\* C14's case: reset() has just run while a file was still in flight.
C14_Witness ==
    /\ announced.message = <<"All data has been reset">>
    /\ calls # {}
    /\ queues # {}
    /\ map = <<>>
    /\ fileProcessingStates = <<>>
    /\ activeProcessingCount = 0

\* handleFiles(files) as stated: every entry 'pending' right after the call.
AllPending(files) == [j \in 1..Len(files) |-> [file |-> files[j], status |-> "pending"]]

\* C15: handleFiles(files) with a non-empty list leaves processedFiles, errors
\* and performanceMetrics empty and one 'pending' entry per submitted file in
\* submission order, with map unchanged; handleFiles([]) changes no state.
C15_HandleFilesFrame ==
    [][\A files \in Batches(MaxOverlapFiles) \cup {<<>>} : handleFiles(files) =>
          IF files = <<>>
          THEN UNCHANGED vars
          ELSE /\ processedFiles' = <<>>
               /\ errors' = <<>>
               /\ performanceMetrics' = <<>>
               /\ fileProcessingStates' = AllPending(files)
               /\ map' = map]_vars

\* How many files the call starts itself: the room the cap leaves.
Room(files) ==
    LET room == props.maxConcurrentFiles - activeProcessingCount
    IN  IF room <= 0 THEN 0 ELSE IF room >= Len(files) THEN Len(files) ELSE room

\* C15, amended: as C15, but the entries of the first files, as many as the
\* concurrency cap leaves room for, are already 'processing' right after the
\* call; the others are 'pending'.
C15_HandleFilesFrameStarted ==
    [][\A files \in Batches(MaxOverlapFiles) \cup {<<>>} : handleFiles(files) =>
          IF files = <<>>
          THEN UNCHANGED vars
          ELSE /\ processedFiles' = <<>>
               /\ errors' = <<>>
               /\ performanceMetrics' = <<>>
               /\ fileProcessingStates' =
                      [j \in 1..Len(files) |->
                          [file |-> files[j],
                           status |-> IF j <= Room(files) THEN "processing" ELSE "pending"]]
               /\ map' = map]_vars

\* C15's case: handleFiles has just been called with two files while a saved
\* mapping exists; the first file is started, the second waits.
C15_Witness ==
    /\ Len(announced.message) = 2
    /\ announced.message[1] = "Starting to process"
    /\ Len(map) > 0
    /\ IsSaved(map[1])
    /\ Len(fileProcessingStates) = 2
    /\ fileProcessingStates[1].status = "processing"
    /\ fileProcessingStates[2].status = "pending"
    /\ errors = <<>>

-----------------------------------------------------------------------------
(* SpreadsheetService: one call of SpreadSheetService(file, config,        *)
(* clientId).  A file name is the sequence of its characters, so that the  *)
(* extension is computed as the code computes it.  Between the rate-limit  *)
(* check and the settling of the promise the call touches no shared state, *)
(* so a call is one action.                                                *)

DEFAULT_SECURITY_CONFIG ==
    [maxFileSize |-> 50 * 1024 * 1024,
     allowedExtensions |-> {<<".", "x", "l", "s", "x">>, <<".", "x", "l", "s">>,
                            <<".", "c", "s", "v">>},
     allowedMimeTypes |->
         {"application/vnd.openxmlformats-officedocument.spreadsheetml.sheet",
          "application/vnd.ms-excel", "text/csv", "application/csv"},
     sanitizeData |-> TRUE,
     maxFilesPerWindow |-> 10,
     rateLimitWindow |-> 60000]

\* Strings are sequences of characters, a character is a one-letter string.
UpperCase == <<"A", "B", "C", "D", "E", "F", "G", "H", "I", "J", "K", "L", "M", "N", "O", "P", "Q", "R", "S", "T", "U", "V", "W", "X", "Y", "Z">>

LowerCase == <<"a", "b", "c", "d", "e", "f", "g", "h", "i", "j", "k", "l", "m", "n", "o", "p", "q", "r", "s", "t", "u", "v", "w", "x", "y", "z">>

\* The lower case of one letter of A..Z; every other character is kept.
Fold(ch) ==
    IF \E i \in 1..26 : UpperCase[i] = ch
    THEN LowerCase[CHOOSE i \in 1..26 : UpperCase[i] = ch]
    ELSE ch

\* String.prototype.toLowerCase on one character.  "U+0130" is the capital I
\* with a dot above, whose lower case is two characters long: i and the
\* combining dot "U+0307".
LowerChar(ch) ==
    IF ch = "U+0130" THEN <<"i", "U+0307">> ELSE <<Fold(ch)>>

RECURSIVE ToLowerCase(_)
ToLowerCase(name) ==
    IF name = <<>> THEN <<>> ELSE LowerChar(Head(name)) \o ToLowerCase(Tail(name))

\* lastIndexOf, 1-based; 0 where the code returns -1.
LastIndexOf(name, ch) ==
    LET hits == {i \in 1..Len(name) : name[i] = ch}
    IN  IF hits = {} THEN 0 ELSE CHOOSE i \in hits : \A j \in hits : j <= i

\* file.name.toLowerCase().substring(file.name.lastIndexOf('.')): the index
\* is taken in the name as given and applied to the lowered name; the whole
\* lowered name when there is no dot, since substring(-1) is substring(0).
Extension(name) ==
    LET from == LastIndexOf(name, ".")
    IN  SubSeq(ToLowerCase(name), IF from = 0 THEN 1 ELSE from,
               Len(ToLowerCase(name)))

\* The warnings validateFile collects (10 MB threshold).
ValidationWarnings(file) ==
    IF file.size > 10 * 1024 * 1024 THEN <<"large file">> ELSE <<>>

\* The errors validateFile collects, in the order it pushes them.
ValidationErrors(file, securityConfig) ==
    (IF file.size > securityConfig.maxFileSize THEN <<"size">> ELSE <<>>)
    \o (IF Extension(file.name) \notin securityConfig.allowedExtensions
        THEN <<"extension">> ELSE <<>>)
    \o (IF file.type # "" /\ file.type \notin securityConfig.allowedMimeTypes
        THEN <<"type">> ELSE <<>>)

validateFile(file, securityConfig) ==
    [isValid |-> Len(ValidationErrors(file, securityConfig)) = 0,
     errors |-> ValidationErrors(file, securityConfig),
     warnings |-> ValidationWarnings(file),
     fileSize |-> file.size,
     mimeType |-> file.type,
     extension |-> Extension(file.name)]

\* rateLimitState is a Map: a set of entries with at most one per clientId.
Has(table, clientId) == \E entry \in table : entry.clientId = clientId

Entry(table, clientId) == CHOOSE entry \in table : entry.clientId = clientId

Set(table, clientId, state) ==
    {entry \in table : entry.clientId # clientId}
    \cup {[clientId |-> clientId, fileCount |-> state.fileCount,
           windowStart |-> state.windowStart]}

\* rateLimitState.get(clientId) || { fileCount: 0, windowStart: now }
StateOf(table, clientId, at) ==
    IF Has(table, clientId)
    THEN [fileCount |-> Entry(table, clientId).fileCount,
          windowStart |-> Entry(table, clientId).windowStart]
    ELSE [fileCount |-> 0, windowStart |-> at]

NeverExpired(state, securityConfig, at) == FALSE

\* now - state.windowStart > securityConfig.rateLimitWindow
Expired(state, securityConfig, at) ==
    at - state.windowStart > securityConfig.rateLimitWindow

\* The state object after the "reset window if expired" step.
WindowOf(table, clientId, securityConfig, at) ==
    IF Expired(StateOf(table, clientId, at), securityConfig, at)
    THEN [fileCount |-> 0, windowStart |-> at]
    ELSE StateOf(table, clientId, at)

\* What checkRateLimit returns.
checkRateLimit(table, clientId, securityConfig, at) ==
    WindowOf(table, clientId, securityConfig, at).fileCount
        < securityConfig.maxFilesPerWindow

\* The table after checkRateLimit.  The state object it resets is the stored
\* one when the client has an entry, so the reset reaches the table even when
\* the call is then denied; a fresh object is stored only when allowed.
TableAfter(table, clientId, securityConfig, at) ==
    LET state == WindowOf(table, clientId, securityConfig, at)
    IN  IF checkRateLimit(table, clientId, securityConfig, at)
        THEN Set(table, clientId, [state EXCEPT !.fileCount = @ + 1])
        ELSE IF Has(table, clientId) THEN Set(table, clientId, state) ELSE table

SecureMessage == "File processing failed. Please check the file format and try again."

UnexpectedMessage == "An unexpected error occurred during file processing."

\* What can go wrong after validation: the FileReader fires onerror (the
\* promise rejects with the event), it loads an empty result, XLSX.read
\* throws, the sheet is missing, the header row is missing.
Faults == {"none", "reader.onerror", "empty result", "XLSX.read", "sheet", "header"}

\* What processSpreadsheetAsync rejects with, if it does.
Thrown(file, securityConfig, allowed, fault) ==
    CASE ~allowed ->
           [thrown |-> TRUE, isError |-> TRUE,
            message |-> "Rate limit exceeded. Please wait before processing more files."]
      [] allowed /\ ~validateFile(file, securityConfig).isValid ->
           [thrown |-> TRUE, isError |-> TRUE,
            message |-> "File validation failed",
            detail |-> validateFile(file, securityConfig).errors]
      [] OTHER ->
           CASE fault = "none" -> [thrown |-> FALSE]
             [] fault = "reader.onerror" -> [thrown |-> TRUE, isError |-> FALSE]
             [] fault = "empty result" ->
                  [thrown |-> TRUE, isError |-> TRUE, message |-> "Failed to read file"]
             [] fault = "XLSX.read" ->
                  [thrown |-> TRUE, isError |-> TRUE, message |-> "XLSX.read"]
             [] fault = "sheet" ->
                  [thrown |-> TRUE, isError |-> TRUE, message |-> "Invalid sheet selection"]
             [] OTHER ->
                  [thrown |-> TRUE, isError |-> TRUE, message |-> "Header data not available"]

\* The handler of .catch: what SpreadSheetService rejects with.
Caught(error, testing) ==
    IF testing THEN error
    ELSE [thrown |-> TRUE, isError |-> TRUE,
          message |-> IF error.isError THEN SecureMessage ELSE UnexpectedMessage]

\* The security configuration processSpreadsheetAsync works with.
Merged(settings, testing) ==
    Spread(DEFAULT_SECURITY_CONFIG,
           IF testing
           THEN Spread(settings, [maxFilesPerWindow |-> 1000, rateLimitWindow |-> 1000])
           ELSE settings)

SheetFile == [name |-> <<"a", ".", "C", "S", "V">>, size |-> 1, type |-> "text/csv"]

NotesFile == [name |-> <<"n", ".", "t", "x", "t">>, size |-> 1, type |-> ""]

ServiceFiles == {SheetFile, NotesFile}

SpreadSheetService(file, clientId, fault) ==
    LET securityConfig == Merged(security, isTestMode)
        allowed == checkRateLimit(rateLimitState, clientId, securityConfig, now)
        error == Thrown(file, securityConfig, allowed, fault)
    IN  /\ admitted[clientId][now] < MaxPerTick
        /\ rateLimitState' = TableAfter(rateLimitState, clientId, securityConfig, now)
        /\ admitted' = IF allowed
                       THEN [admitted EXCEPT ![clientId][now] = @ + 1]
                       ELSE admitted
        /\ settled' = IF error.thrown
                      THEN [state |-> "rejected", reason |-> Caught(error, isTestMode)]
                      ELSE [state |-> "resolved"]
        /\ UNCHANGED <<now, isTestMode, security, request, response, hookVars>>

\* Time passes.
Tick ==
    /\ now < MaxTime
    /\ now' = now + 1
    /\ UNCHANGED <<rateLimitState, isTestMode, security, admitted, settled,
                   request, response, hookVars>>

\* The application changes the security settings it passes.
updateConfig(settings) ==
    /\ security' = settings
    /\ UNCHANGED <<rateLimitState, now, isTestMode, admitted, settled,
                   request, response, hookVars>>

ServiceProps ==
    [maxConcurrentFiles |-> 1, enableMetrics |-> FALSE,
     onAnnounce |-> FALSE, options |-> Options]

\* A production build: NODE_ENV and VITEST do not say "test".
InitService ==
    \E settings \in SecurityConfigs :
        Mounted(ServiceProps) /\ Loaded(FALSE, settings) /\ Idle

Submit ==
    \E file \in ServiceFiles, clientId \in Clients, fault \in Faults :
        SpreadSheetService(file, clientId, fault)

NextService ==
    \/ Submit
    \/ Tick
    \/ \E settings \in SecurityConfigs : updateConfig(settings)

SpecService == InitService /\ [][NextService]_vars

\* The same with settings that never change.
NextSteady ==
    \/ Submit
    \/ Tick

SpecSteady == InitService /\ [][NextSteady]_vars

\* The same under a test runner.
InitTest ==
    \E settings \in SecurityConfigs :
        Mounted(ServiceProps) /\ Loaded(TRUE, settings) /\ Idle

SpecTest == InitTest /\ [][NextSteady]_vars

-----------------------------------------------------------------------------
(* The rate limiter.                                                       *)

\* The step lets a submission of the client through: checkRateLimit returned
\* true for it.
Allowed(clientId) ==
    admitted' = [admitted EXCEPT ![clientId][now] = @ + 1]

\* The step is a call of the client: only its own calls add to its admitted
\* submissions or write its entry of the table.
CallOf(clientId) ==
    \/ Allowed(clientId)
    \/ StateOf(rateLimitState', clientId, now) # StateOf(rateLimitState, clientId, now)

\* The window the table holds for the client is still open.
StillOpen(clientId) ==
    now - Entry(rateLimitState, clientId).windowStart <= security.rateLimitWindow

\* The window the table holds for the client has had its maxFilesPerWindow.
Full(clientId) ==
    Entry(rateLimitState, clientId).fileCount >= security.maxFilesPerWindow

StartsNewWindow(clientId) ==
    /\ Has(rateLimitState', clientId)
    /\ Entry(rateLimitState', clientId).fileCount = 1
    /\ Entry(rateLimitState', clientId).windowStart = now

\* C16 as stated: for every clientId, once maxFilesPerWindow submissions have
\* been allowed in the current window no submission is let through while the
\* window is open, and a submission made after rateLimitWindow has elapsed
\* since the window start is allowed and starts a new window with fileCount 1.
C16_DeniedThenAllowedAgain ==
    [][~isTestMode =>
        \A clientId \in Clients :
          Has(rateLimitState, clientId)
          => /\ StillOpen(clientId) /\ Full(clientId) => ~Allowed(clientId)
             /\ ~StillOpen(clientId) /\ CallOf(clientId)
                => Allowed(clientId) /\ StartsNewWindow(clientId)]_vars

\* C16, amended: the same, where the second half is about calls made with
\* maxFilesPerWindow >= 1 (with 0 every call is denied, whatever the window).
C16_AllowedAgainWithPositiveLimit ==
    [][~isTestMode =>
        \A clientId \in Clients :
          Has(rateLimitState, clientId)
          => /\ StillOpen(clientId) /\ Full(clientId) => ~Allowed(clientId)
             /\ ~StillOpen(clientId) /\ CallOf(clientId)
                /\ security.maxFilesPerWindow >= 1
                => Allowed(clientId) /\ StartsNewWindow(clientId)]_vars

\* A client that filled a window at time 0 has been let through again, in a
\* window that starts now.
C16_Witness ==
    \E clientId \in Clients :
        /\ admitted[clientId][0] = MaxPerWindow
        /\ now = MaxWindow + 1
        /\ admitted[clientId][now] = 1
        /\ Has(rateLimitState, clientId)
        /\ Entry(rateLimitState, clientId).fileCount = 1
        /\ Entry(rateLimitState, clientId).windowStart = now

\* The submissions of the client that were allowed at the times from..to.
RECURSIVE AllowedIn(_, _, _)
AllowedIn(clientId, from, to) ==
    IF from > to THEN 0
    ELSE admitted[clientId][from] + AllowedIn(clientId, from + 1, to)

\* C17: the limit is a sliding-window limit: for every clientId and every
\* time interval no longer than rateLimitWindow, at most maxFilesPerWindow
\* submissions whose times fall inside the interval are allowed (settings
\* that never change).
C17_SlidingWindow ==
    \A clientId \in Clients, from \in 0..MaxTime, to \in 0..MaxTime :
        from <= to /\ to - from <= security.rateLimitWindow
        => AllowedIn(clientId, from, to) <= security.maxFilesPerWindow

\* What the code does keep: no more than maxFilesPerWindow submissions are
\* allowed between the start of the window the table holds and now.
C17_FixedWindow ==
    \A clientId \in Clients :
        Has(rateLimitState, clientId)
        => AllowedIn(clientId, Entry(rateLimitState, clientId).windowStart, now)
               <= security.maxFilesPerWindow

\* The entries of the clients other than clientId are what they were.
OthersUntouched(clientId) ==
    {entry \in rateLimitState' : entry.clientId # clientId}
        = {entry \in rateLimitState : entry.clientId # clientId}

\* C18: a denied rate-limit check does not mutate the table (a step that lets
\* no submission through leaves every client's fileCount and windowStart as
\* they were); an allowed check adds exactly 1 to the client's fileCount (the
\* count of its window, 0 when the window has just been renewed) and touches
\* no other client's record.
C18_DeniedLeavesTable ==
    [][/\ (\A clientId \in Clients : ~Allowed(clientId))
          => rateLimitState' = rateLimitState
       /\ \A clientId \in Clients :
            Allowed(clientId)
            => /\ Has(rateLimitState', clientId)
               /\ Entry(rateLimitState', clientId).fileCount
                    = WindowOf(rateLimitState, clientId,
                               Merged(security, isTestMode), now).fileCount + 1
               /\ OthersUntouched(clientId)]_vars

-----------------------------------------------------------------------------
(* The pipeline of one call.                                               *)

\* C19: the rate limiter is consulted, and the client's fileCount
\* incremented, only for a file that has passed validation: a call with a
\* file the validator rejects leaves the table as it was and is not counted
\* as let through.
C19_ValidatedBeforeCounted ==
    [][\A file \in ServiceFiles, clientId \in Clients, fault \in Faults :
          /\ ~validateFile(file, Merged(security, isTestMode)).isValid
          /\ SpreadSheetService(file, clientId, fault)
          => rateLimitState' = rateLimitState /\ admitted' = admitted]_vars

\* C20: outside test mode every rejection of SpreadSheetService carries one
\* and the same generic message, 'File processing failed. Please check the
\* file format and try again.', whichever stage failed and whatever value it
\* rejected with; in test mode the call rejects with the original error.
C20_OneGenericMessage ==
    [][\A file \in ServiceFiles, clientId \in Clients, fault \in Faults :
          SpreadSheetService(file, clientId, fault) /\ settled'.state = "rejected"
          => IF isTestMode
             THEN settled'.reason
                    = Thrown(file, Merged(security, isTestMode),
                             checkRateLimit(rateLimitState, clientId,
                                            Merged(security, isTestMode), now),
                             fault)
             ELSE /\ settled'.reason.isError
                  /\ settled'.reason.message = SecureMessage]_vars

\* What the code does keep outside test mode: a rejection is an Error with
\* one of the two fixed messages, the second one exactly when the stage
\* rejected with a value that is not an Error.
C20_OneOfTwoMessages ==
    settled.state = "rejected" /\ ~isTestMode
    => /\ settled.reason.isError
       /\ settled.reason.message \in {SecureMessage, UnexpectedMessage}

-----------------------------------------------------------------------------
(* validateFile on its own: SpecValidate draws a file and a security       *)
(* configuration and applies validateFile to them.                         *)

MaxSizeSteps == 2       \* file sizes reach MaxSizeSteps steps above each threshold

FileNamesToValidate ==
    { <<"a", ".", "C", "S", "V">>, <<"n", ".", "t", "x", "t">>,
      <<"c", "s", "v">>, <<".", "x", "l", "s", "x">>,
      <<"a", ".", "b", ".", "x", "l", "s">>, <<"a", ".">>,
      <<"U+0130", ".", "c", "s", "v">> }

\* Sizes on both sides of the 10 MB warning threshold and of the two limits.
FileSizes ==
    {0} \cup {1024 + d : d \in 0..MaxSizeSteps - 1}
        \cup {10 * 1024 * 1024 + d : d \in 0..MaxSizeSteps - 1}
        \cup {50 * 1024 * 1024 + d : d \in 0..MaxSizeSteps - 1}

FileTypes == {"", "text/csv", "text/plain"}

FilesToValidate ==
    [name : FileNamesToValidate, size : FileSizes, type : FileTypes]

ValidationConfigs ==
    { Spread(DEFAULT_SECURITY_CONFIG, [maxFileSize |-> limit, allowedExtensions |-> allowed]) :
        limit \in {1024, 50 * 1024 * 1024},
        allowed \in {DEFAULT_SECURITY_CONFIG.allowedExtensions, {<<".", "c", "s", "v">>}} }

InitValidate ==
    /\ Mounted(ServiceProps)
    /\ Loaded(FALSE, [maxFilesPerWindow |-> MaxPerWindow, rateLimitWindow |-> MaxWindow])
    /\ request \in [op : {"validateFile"}, file : FilesToValidate,
                    securityConfig : ValidationConfigs]
    /\ response = None

Validate ==
    /\ request.op = "validateFile"
    /\ response = None
    /\ response' = [op |-> "validateFile",
                    result |-> validateFile(request.file, request.securityConfig)]
    /\ UNCHANGED <<hookVars, rateLimitState, now, isTestMode, security, admitted,
                   settled, request>>

SpecValidate == InitValidate /\ [][Validate]_vars

\* The lowercased suffix of the name from its last '.', the way a reader
\* takes it: lower-case the part of the name that starts at the last dot
\* (the whole name when it has no dot).
LowerSuffix(name) ==
    LET from == LastIndexOf(name, ".")
    IN  ToLowerCase(SubSeq(name, IF from = 0 THEN 1 ELSE from, Len(name)))

Range(s) == {s[i] : i \in 1..Len(s)}

\* C21: validateFile returns isValid = true exactly when errors is empty,
\* which is exactly when size <= maxFileSize, the lowercased suffix from the
\* last '.' of the name is in allowedExtensions and the MIME type is empty or
\* in allowedMimeTypes; every file with size > maxFileSize is invalid with
\* the size error present, and the large-file warning never changes isValid.
C21_ValidExactly ==
    response.op = "validateFile"
    => LET file == request.file
           securityConfig == request.securityConfig
           result == response.result
       IN  /\ result.isValid = (result.errors = <<>>)
           /\ result.isValid
                = (/\ file.size <= securityConfig.maxFileSize
                   /\ LowerSuffix(file.name) \in securityConfig.allowedExtensions
                   /\ file.type = "" \/ file.type \in securityConfig.allowedMimeTypes)
           /\ file.size > securityConfig.maxFileSize
                => ~result.isValid /\ "size" \in Range(result.errors)

\* The same without the one case that fails: names whose lower case is as
\* long as the name.
C21_ValidExactlySameLength ==
    response.op = "validateFile"
      /\ Len(ToLowerCase(request.file.name)) = Len(request.file.name)
    => LET file == request.file
           securityConfig == request.securityConfig
           result == response.result
       IN  /\ result.isValid = (result.errors = <<>>)
           /\ result.isValid
                = (/\ file.size <= securityConfig.maxFileSize
                   /\ LowerSuffix(file.name) \in securityConfig.allowedExtensions
                   /\ file.type = "" \/ file.type \in securityConfig.allowedMimeTypes)
           /\ file.size > securityConfig.maxFileSize
                => ~result.isValid /\ "size" \in Range(result.errors)


-----------------------------------------------------------------------------
(* sanitizeCellValue (lines 83-94).  A cell is a record: a string with its *)
(* characters, a number, null or undefined.  Each replace of the chain     *)
(* scans its input from the left and removes the matches it finds, which   *)
(* do not overlap; its output is the input of the next one.                *)

StringCell(chars) == [t |-> "string", v |-> chars]

NumberCell(n) == [t |-> "number", v |-> n]

NullCell == [t |-> "null"]

UndefinedCell == [t |-> "undefined"]

Digits == <<"0", "1", "2", "3", "4", "5", "6", "7", "8", "9">>

\* \w: a letter, a digit or the underscore.
WordChar(ch) ==
    \/ \E i \in 1..26 : UpperCase[i] = ch \/ LowerCase[i] = ch
    \/ \E i \in 1..10 : Digits[i] = ch
    \/ ch = "_"

\* \s, on the white space that occurs in the model.
WhiteSpace(ch) == ch \in {" ", "\t", "\n"}

\* The literal (in lower case) matches at position p, whatever the case.
MatchAt(s, p, literal) ==
    /\ p >= 1
    /\ p + Len(literal) - 1 <= Len(s)
    /\ \A k \in 1..Len(literal) : Fold(s[p + k - 1]) = literal[k]

\* The smallest position from p on that satisfies the test, 0 if none.
FirstFrom(s, p, literal) ==
    LET hits == {q \in p..Len(s) : MatchAt(s, q, literal)}
    IN  IF hits = {} THEN 0 ELSE CHOOSE q \in hits : \A r \in hits : q <= r

OpenScript == <<"<", "s", "c", "r", "i", "p", "t">>

CloseScript == <<"<", "/", "s", "c", "r", "i", "p", "t", ">">>

\* /<script\b[^<]*(?:(?!<\/script>)<[^<]*)*<\/script>/gi at position 1: the
\* length of the match, 0 if there is none.  The match runs from "<script"
\* at a word boundary to the end of the first "</script>" after it.
ScriptMatch(s) ==
    IF /\ MatchAt(s, 1, OpenScript)
       /\ Len(s) >= 8 => ~WordChar(s[8])
       /\ FirstFrom(s, 8, CloseScript) # 0
    THEN FirstFrom(s, 8, CloseScript) + 8
    ELSE 0

\* /<[^>]*>/g at position 1: from "<" to the first ">" after it.
TagMatch(s) ==
    IF Len(s) >= 1 /\ s[1] = "<" /\ FirstFrom(s, 2, <<">">>) # 0
    THEN FirstFrom(s, 2, <<">">>)
    ELSE 0

JavascriptColon == <<"j", "a", "v", "a", "s", "c", "r", "i", "p", "t", ":">>

\* /javascript:/gi at position 1.
JavascriptMatch(s) == IF MatchAt(s, 1, JavascriptColon) THEN 11 ELSE 0

\* The length of the longest run of characters from position p on that
\* satisfy \w (or \s when white is TRUE).
RECURSIVE Run(_, _, _)
Run(s, p, white) ==
    IF p <= Len(s) /\ (IF white THEN WhiteSpace(s[p]) ELSE WordChar(s[p]))
    THEN 1 + Run(s, p + 1, white)
    ELSE 0

\* /on\w+\s*=/gi at position 1.  \w+ has to take the whole run of word
\* characters, since what follows it is not a word character.
HandlerMatch(s) ==
    LET word == Run(s, 3, FALSE)
        space == Run(s, 3 + word, TRUE)
    IN  IF /\ MatchAt(s, 1, <<"o", "n">>)
           /\ word >= 1
           /\ 3 + word + space <= Len(s)
           /\ s[3 + word + space] = "="
        THEN 2 + word + space + 1
        ELSE 0

\* String.prototype.replace(regex, '') with the g flag, one operator per regex.
RECURSIVE StripScripts(_)
StripScripts(s) ==
    IF s = <<>> THEN <<>>
    ELSE IF ScriptMatch(s) > 0
         THEN StripScripts(SubSeq(s, ScriptMatch(s) + 1, Len(s)))
         ELSE <<Head(s)>> \o StripScripts(Tail(s))

\* Removes every angle bracket.
RECURSIVE StripAngles(_)
StripAngles(s) ==
    IF s = <<>> THEN <<>>
    ELSE IF Head(s) \in {"<", ">"} THEN StripAngles(Tail(s))
    ELSE <<Head(s)>> \o StripAngles(Tail(s))

RECURSIVE StripTags(_)
StripTags(s) ==
    IF s = <<>> THEN <<>>
    ELSE IF TagMatch(s) > 0
         THEN StripTags(SubSeq(s, TagMatch(s) + 1, Len(s)))
         ELSE <<Head(s)>> \o StripTags(Tail(s))

RECURSIVE StripJavascript(_)
StripJavascript(s) ==
    IF s = <<>> THEN <<>>
    ELSE IF JavascriptMatch(s) > 0
         THEN StripJavascript(SubSeq(s, JavascriptMatch(s) + 1, Len(s)))
         ELSE <<Head(s)>> \o StripJavascript(Tail(s))

RECURSIVE StripHandlers(_)
StripHandlers(s) ==
    IF s = <<>> THEN <<>>
    ELSE IF HandlerMatch(s) > 0
         THEN StripHandlers(SubSeq(s, HandlerMatch(s) + 1, Len(s)))
         ELSE <<Head(s)>> \o StripHandlers(Tail(s))

\* String.prototype.trim
RECURSIVE TrimStart(_)
TrimStart(s) ==
    IF s # <<>> /\ WhiteSpace(Head(s)) THEN TrimStart(Tail(s)) ELSE s

RECURSIVE TrimEnd(_)
TrimEnd(s) ==
    IF s # <<>> /\ WhiteSpace(s[Len(s)]) THEN TrimEnd(SubSeq(s, 1, Len(s) - 1)) ELSE s

Trim(s) == TrimEnd(TrimStart(s))

sanitizeCellValue(value) ==
    IF value.t = "string"
    THEN StringCell(Trim(StripHandlers(StripJavascript(StripTags(StripScripts(value.v))))))
    ELSE value


-----------------------------------------------------------------------------
(* sanitizeCellValue on its own: SpecSanitize draws a cell and sanitizes   *)
(* it.                                                                     *)

MaxFragments == 3       \* a string cell is made of at most MaxFragments fragments

Fragments ==
    { <<"j", "a", "v", "a">>,
      <<"s", "c", "r", "i", "p", "t", ":">>,
      <<"J", "a", "v", "a", "S", "c", "r", "i", "p", "t", ":">>,
      <<"<", "b", ">">>,
      <<"<", "s", "c", "r", "i", "p", "t", ">">>,
      <<"<", "/", "s", "c", "r", "i", "p", "t", ">">>,
      <<"<">>,
      <<">">>,
      <<"o", "n", "X", " ", "=">>,
      <<"o", "n">>,
      <<" ">>,
      <<"a">> }

RECURSIVE Strings(_)
Strings(n) ==
    IF n = 0 THEN {<<>>}
    ELSE Strings(n - 1) \cup {s \o f : s \in Strings(n - 1), f \in Fragments}

CellsToSanitize ==
    {StringCell(s) : s \in Strings(MaxFragments)}
        \cup {NumberCell(1), NullCell, UndefinedCell}

InitSanitize ==
    /\ Mounted(ServiceProps)
    /\ Loaded(FALSE, [maxFilesPerWindow |-> MaxPerWindow, rateLimitWindow |-> MaxWindow])
    /\ request \in [op : {"sanitizeCellValue"}, value : CellsToSanitize]
    /\ response = None

Sanitize ==
    /\ request.op = "sanitizeCellValue"
    /\ response = None
    /\ response' = [op |-> "sanitizeCellValue",
                    result |-> sanitizeCellValue(request.value)]
    /\ UNCHANGED <<hookVars, rateLimitState, now, isTestMode, security, admitted,
                   settled, request>>

SpecSanitize == InitSanitize /\ [][Sanitize]_vars

\* The string holds a '<...>' tag, 'javascript:' in some letter case, an
\* inline event handler 'on<word>='.
HasTag(s) == \E p \in 1..Len(s) : TagMatch(SubSeq(s, p, Len(s))) > 0

HasJavascript(s) == \E p \in 1..Len(s) : MatchAt(s, p, JavascriptColon)

HasHandler(s) == \E p \in 1..Len(s) : HandlerMatch(SubSeq(s, p, Len(s))) > 0

\* C29: with sanitizeData enabled, the sanitized cell of every input string
\* contains no '<...>' tag, no 'javascript:' in any letter case and no
\* 'on<word>=' pattern; a cell that is not a string is returned unchanged.
C29_NothingDangerousLeft ==
    response.op = "sanitizeCellValue"
    => IF request.value.t = "string"
       THEN /\ response.result.t = "string"
            /\ ~HasTag(response.result.v)
            /\ ~HasJavascript(response.result.v)
            /\ ~HasHandler(response.result.v)
       ELSE response.result = request.value

\* What the chain does keep: no tag is left, and cells that are not strings
\* are returned unchanged.
C29_NoTagLeft ==
    response.op = "sanitizeCellValue"
    => IF request.value.t = "string"
       THEN response.result.t = "string" /\ ~HasTag(response.result.v)
       ELSE response.result = request.value


\* a can be had from b by leaving characters out.
RECURSIVE IsSubsequence(_, _)
IsSubsequence(a, b) ==
    IF a = <<>> THEN TRUE
    ELSE IF b = <<>> THEN FALSE
    ELSE IF Head(a) = Head(b) THEN IsSubsequence(Tail(a), Tail(b))
    ELSE IsSubsequence(a, Tail(b))

\* The string holds nothing the sanitizer looks for.
Clean(s) == ~HasTag(s) /\ ~HasJavascript(s) /\ ~HasHandler(s)

\* C30 as stated: the characters of a string cell outside the removed
\* fragments are returned unchanged and in order, and a string with no tag,
\* no 'javascript:' and no 'on<word>=' pattern is returned exactly as it was
\* read.
C30_LegitimateIntact ==
    response.op = "sanitizeCellValue" /\ request.value.t = "string"
    => /\ IsSubsequence(response.result.v, request.value.v)
       /\ Clean(request.value.v) => response.result.v = request.value.v

\* C30, amended: the same up to the white space at the two ends of the
\* result, which trim() removes.
C30_LegitimateIntactTrimmed ==
    response.op = "sanitizeCellValue" /\ request.value.t = "string"
    => /\ IsSubsequence(response.result.v, request.value.v)
       /\ Clean(request.value.v) => response.result.v = Trim(request.value.v)

\* A cell with a tag next to plain text has been sanitized: the text is kept.
C30_Witness ==
    /\ response.op = "sanitizeCellValue"
    /\ request.value.t = "string"
    /\ request.value.v = <<"a", "<", "b", ">", "a">>
    /\ response.result.v = <<"a", "a">>


-----------------------------------------------------------------------------
(* The sheet extractor and the projection of processSpreadsheetAsync       *)
(* (lines 226-315).  A workbook is what XLSX.read returns: SheetNames and, *)
(* per name, the sheet, which stands here for the matrix sheet_to_json     *)
(* makes of it.  Indices of rows and cells are 0-based in the code and in  *)
(* the arguments of the operators below, 1-based inside the sequences.     *)

Min(a, b) == IF a <= b THEN a ELSE b

Max(a, b) == IF a >= b THEN a ELSE b

\* String(n) for a number n >= 0.
RECURSIVE DigitsOf(_)
DigitsOf(n) ==
    IF n < 10 THEN <<Digits[n + 1]>>
    ELSE DigitsOf(n \div 10) \o <<Digits[(n % 10) + 1]>>

\* String(cell), of headerRow_.slice(0, 100).map(String)
String(cell) ==
    CASE cell.t = "string" -> cell.v
      [] cell.t = "number" -> DigitsOf(cell.v)
      [] cell.t = "null" -> <<"n", "u", "l", "l">>
      [] OTHER -> <<"u", "n", "d", "e", "f", "i", "n", "e", "d">>

\* String.fromCharCode(code), a string of one character.  A character that
\* is neither a letter nor one of the characters between Z and a is written
\* as its code, and the grave accent as U+0060.
fromCharCode(code) ==
    CASE code \in 65..90 -> <<UpperCase[code - 64]>>
      [] code \in 97..122 -> <<LowerCase[code - 96]>>
      [] code \in 91..96 -> <<(<<"[", "\\", "]", "^", "_", "U+0060">>)[code - 90]>>
      [] OTHER -> <<ToString(code)>>

\* array.slice(from) and array.slice(0, to) for integers from >= 0 and to.
SliceFrom(array, from) == SubSeq(array, from + 1, Len(array))

SliceTo(array, to) ==
    SubSeq(array, 1, IF to < 0 THEN Max(Len(array) + to, 0) ELSE Min(to, Len(array)))

Failure(message) == [threw |-> TRUE, message |-> message]

\* A selection that always takes the first sheet of the workbook.
FirstSheet(workbook, sheetIdentifier) ==
    IF Len(workbook.SheetNames) = 0 THEN Failure("Invalid sheet selection")
    ELSE [threw |-> FALSE, sheetName |-> workbook.SheetNames[1]]

\* Sheet validation (lines 228-244): the name of the sheet, or the error.
ResolveSheet(workbook, sheetIdentifier) ==
    IF sheetIdentifier.t = "number"
    THEN IF sheetIdentifier.v >= Len(workbook.SheetNames)
         THEN Failure("Invalid sheet selection")
         ELSE IF \/ sheetIdentifier.v + 1 \notin 1..Len(workbook.SheetNames)
                 \/ workbook.SheetNames[sheetIdentifier.v + 1] = ""
              THEN Failure("Sheet not found")
              ELSE [threw |-> FALSE, sheetName |-> workbook.SheetNames[sheetIdentifier.v + 1]]
    ELSE IF \A i \in 1..Len(workbook.SheetNames) : workbook.SheetNames[i] # sheetIdentifier.v
         THEN Failure("Named sheet not found")
         ELSE [threw |-> FALSE, sheetName |-> sheetIdentifier.v]

\* dataStartRow ? dataStartRow - 1 : unset
StartOr(config, unset) ==
    IF "dataStartRow" \in DOMAIN config /\ config.dataStartRow # 0
    THEN config.dataStartRow - 1
    ELSE unset

\* A header that is always the first row of the sheet.
HeaderAtTop(json, config) == 0

\* headerIndex (line 271)
HeaderIndex(json, config) == Max(0, Min(config.headerRow - 1, Len(json) - 1))

\* The error of the header branch (lines 264-275), "" if there is none.
HeaderError(json, config) ==
    IF config.omitHeader THEN ""
    ELSE IF Len(json) = 0 THEN "Header data not available"
    ELSE IF config.headerRow > Len(json) THEN "Header row is out of bounds"
    ELSE ""

\* columns (lines 259 and 276)
ColumnsOf(json, config) ==
    IF config.omitHeader
    THEN LET firstRow == IF Len(json) >= 1 THEN json[1] ELSE <<>>
         IN  [i \in 1..Min(Len(firstRow), 100) |-> fromCharCode(65 + i - 1)]
    ELSE LET headerRow_ == json[HeaderIndex(json, config) + 1]
         IN  [i \in 1..Min(Len(headerRow_), 100) |-> String(headerRow_[i])]

\* dataStartIndex (lines 260 and 277)
DataStartIndex(json, config) ==
    Max(0, Min(StartOr(config, IF config.omitHeader THEN 0
                               ELSE HeaderIndex(json, config) + 1),
               Len(json)))

\* effectivePreviewCount (line 282), given rows.length
EffectivePreviewCount(config, length) ==
    IF config.enableMetrics
    THEN Min(IF config.previewRowCount # 0 THEN config.previewRowCount ELSE length, 1000)
    ELSE config.previewRowCount

\* The indices in json of the rows that are projected: previewRows.
PreviewIndices(json, config) ==
    LET from == DataStartIndex(json, config)
        rows == SliceFrom(json, from)
        kept == SliceTo(rows, EffectivePreviewCount(config, Len(rows)))
    IN  [k \in 1..Len(kept) |-> from + k - 1]

\* The name of the accessor of the prototype of an object: acc[curr] =
\* cellValue with this name calls the setter of Object.prototype, which
\* ignores a value that is not an object (every CellValue), and adds no key.
ProtoName == <<"_", "_", "p", "r", "o", "t", "o", "_", "_">>

\* The object columns.reduce builds of one row (lines 287-298): one key per
\* distinct column name, holding the cell of the last column of that name.
RowObject(row, columns, sanitizeData) ==
    [key \in {columns[i] : i \in 1..Len(columns)} \ {ProtoName} |->
        LET last == CHOOSE i \in 1..Len(columns) :
                        /\ columns[i] = key
                        /\ \A j \in 1..Len(columns) : columns[j] = key => j <= i
            cell == IF last <= Len(row) THEN row[last] ELSE UndefinedCell
            cellValue == IF cell.t \in {"undefined", "null"}
                         THEN StringCell(<<>>) ELSE cell
        IN  IF sanitizeData THEN sanitizeCellValue(cellValue) ELSE cellValue]

\* What lines 226-315 return or throw for a workbook, with the indices in the
\* sheet of the data rows (rows) and of those the data is made of (indices).
processSpreadsheetAsync(workbook, config) ==
    LET sheet == ResolveSheet(workbook, config.sheet)
    IN  IF sheet.threw THEN sheet
        ELSE IF sheet.sheetName \notin DOMAIN workbook.Sheets
        THEN Failure("Sheet data not accessible")
        ELSE LET json == workbook.Sheets[sheet.sheetName]
             IN  IF HeaderError(json, config) # ""
                 THEN Failure(HeaderError(json, config))
                 ELSE LET columns == ColumnsOf(json, config)
                          indices == PreviewIndices(json, config)
                          data == [k \in 1..Len(indices) |->
                                     RowObject(json[indices[k] + 1], columns,
                                               config.sanitizeData)]
                          rowCount == Len(json) - DataStartIndex(json, config)
                      IN  [threw |-> FALSE,
                           sheetName |-> sheet.sheetName,
                           rows |-> [k \in 1..rowCount |->
                                       DataStartIndex(json, config) + k - 1],
                           indices |-> indices,
                           result |->
                               IF config.enableMetrics
                               THEN [columns |-> columns, data |-> data,
                                     metrics |-> [rowCount |-> rowCount]]
                               ELSE [columns |-> columns, data |-> data]]


-----------------------------------------------------------------------------
(* The extraction alone: one workbook and one configuration, after the     *)
(* defaults of the destructuring (lines 177-183) are filled in.            *)

MaxSheets == 2
MaxHeaderRow == 3
MaxStart == 3
MaxPreview == 2
MaxTall == 7
MaxWide == 101

S(text) == StringCell(<<text>>)

Plain ==
    <<  <<S("a"), S("b")>>,
        <<NumberCell(1), StringCell(<<" ", "x">>)>>,
        <<NumberCell(2), S("y")>>,
        <<NumberCell(3), S("z")>>  >>

Ragged ==
    <<  <<S("a"), S("b")>>,
        <<S("x")>>,
        <<NullCell, S("y"), S("z")>>,
        <<UndefinedCell, NumberCell(0)>>  >>

Duplicated == <<  <<S("a"), S("a")>>, <<S("x"), S("y")>>  >>

Mixed == <<  <<NumberCell(1), S("1")>>, <<S("x"), S("y")>>  >>

Tall == [i \in 1..(MaxTall + 1) |-> IF i = 1 THEN <<S("a")>> ELSE <<NumberCell(i - 1)>>]

Wide == [i \in 1..2 |-> [j \in 1..MaxWide |-> NumberCell(j - 1)]]

Proto == <<  <<StringCell(ProtoName), S("b")>>, <<S("x"), NumberCell(1)>>  >>

Matrices == {<<>>, Plain, Ragged, Duplicated, Mixed, Proto, Tall, Wide}

OneSheet(json) ==
    [SheetNames |-> <<"Sheet1">>, Sheets |-> [name \in {"Sheet1"} |-> json]]

TwoSheets ==
    [SheetNames |-> <<"Sheet1", "Data">>,
     Sheets |-> [name \in {"Sheet1", "Data"} |-> IF name = "Sheet1" THEN Plain ELSE Tall]]

NoSheets == [SheetNames |-> <<>>, Sheets |-> [name \in {} |-> <<>>]]

SheetSelectors ==
    [t : {"number"}, v : -1..MaxSheets] \cup [t : {"string"}, v : {"Sheet1", "Data", "Nope"}]

\* previewRowCount: 5 is the default.
PreviewCounts == -1..MaxPreview \cup {5}

ExtractConfigs(selectors) ==
    LET always == [sheet : selectors, omitHeader : BOOLEAN, headerRow : 0..MaxHeaderRow,
                   previewRowCount : PreviewCounts, sanitizeData : BOOLEAN,
                   enableMetrics : BOOLEAN]
    IN  always \cup {Spread(config, [dataStartRow |-> start]) :
                        config \in always, start \in -1..MaxStart}

\* The configuration of a call that sets nothing but the sheet.
DefaultConfig(selector) ==
    [sheet |-> selector, omitHeader |-> FALSE, headerRow |-> 1, previewRowCount |-> 5,
     sanitizeData |-> TRUE, enableMetrics |-> TRUE]

ExtractRequests ==
    {[op |-> "extract", workbook |-> OneSheet(json), config |-> config] :
        json \in Matrices, config \in ExtractConfigs({[t |-> "number", v |-> 0]})}
    \cup {[op |-> "extract", workbook |-> workbook, config |-> DefaultConfig(selector)] :
            workbook \in {TwoSheets, NoSheets}, selector \in SheetSelectors}

InitExtract ==
    /\ Mounted(ServiceProps)
    /\ Loaded(FALSE, [maxFilesPerWindow |-> MaxPerWindow, rateLimitWindow |-> MaxWindow])
    /\ request \in ExtractRequests
    /\ response = None

Extract ==
    /\ request.op = "extract"
    /\ response = None
    /\ response' = Spread([op |-> "extract"], processSpreadsheetAsync(request.workbook, request.config))
    /\ UNCHANGED <<hookVars, rateLimitState, now, isTestMode, security, admitted,
                   settled, request>>

SpecExtract == InitExtract /\ [][Extract]_vars


\* The call of the extraction has returned a result.
Extracted == response # None /\ response.op = "extract" /\ ~response.threw

\* C22: with omitHeader false, whenever the extraction succeeds no row of
\* the returned data is built from the matrix row at index headerRow - 1.
C22_HeaderRowExcluded ==
    (Extracted /\ ~request.config.omitHeader) =>
        \A k \in 1..Len(response.indices) :
            response.indices[k] # request.config.headerRow - 1


Distinct(s) == \A i, j \in 1..Len(s) : s[i] = s[j] => i = j

\* C23: in every result of the extraction the names of columns are pairwise
\* distinct and every row of data has as many keys as columns has entries.
C23_DistinctColumnsFullRows ==
    Extracted =>
        /\ Distinct(response.result.columns)
        /\ \A k \in 1..Len(response.result.data) :
              Cardinality(DOMAIN response.result.data[k]) = Len(response.result.columns)


\* The sheet the request selects, when it selects one.
Selected == ResolveSheet(request.workbook, request.config.sheet)

SelectedRows == request.workbook.Sheets[Selected.sheetName]

\* The extraction has returned or thrown, and had a sheet to work on.
ExtractedFrom(omitHeader) ==
    /\ response # None /\ response.op = "extract"
    /\ request.config.omitHeader = omitHeader
    /\ ~Selected.threw

\* The indices of the rows of a sheet of a given length from index start on.
IndicesFrom(start, length) ==
    [k \in 1..Max(0, length - Max(start, 0)) |-> Max(start, 0) + k - 1]

\* The string form of the first 100 cells of a row.
Header(row) == [i \in 1..Min(Len(row), 100) |-> String(row[i])]

Rejected(message) == response.threw /\ response.message = message

\* The header branch with the header in row header (1-indexed) and the data
\* from index start on.
HeaderBranch(header, start) ==
    LET json == SelectedRows
    IN  IF Len(json) = 0 THEN Rejected("Header data not available")
        ELSE IF request.config.headerRow > Len(json)
        THEN Rejected("Header row is out of bounds")
        ELSE /\ ~response.threw
             /\ header \in 1..Len(json)
             /\ response.result.columns = Header(json[Min(Max(header, 1), Len(json))])
             /\ response.rows = IndicesFrom(start, Len(json))

\* C24 (as stated): with omitHeader false an empty sheet rejects with
\* 'Header data not available', a headerRow beyond the last row rejects
\* with 'Header row is out of bounds', and otherwise columns is the string
\* form of the first 100 cells of row headerRow and the data rows are the
\* rows from dataStartRow on when it is set, else from the row after the
\* header.
C24_HeaderBranchAsStated ==
    ExtractedFrom(FALSE) =>
        HeaderBranch(request.config.headerRow,
                     IF "dataStartRow" \in DOMAIN request.config
                     THEN request.config.dataStartRow - 1
                     ELSE request.config.headerRow)

\* C24: the same, where a headerRow below 1 means the first row and a
\* dataStartRow of 0 means that it is not set.
C24_HeaderBranch ==
    ExtractedFrom(FALSE) =>
        LET header == Max(request.config.headerRow, 1)
        IN  HeaderBranch(header,
                         IF /\ "dataStartRow" \in DOMAIN request.config
                            /\ request.config.dataStartRow # 0
                         THEN request.config.dataStartRow - 1
                         ELSE header)

C24_Witness ==
    /\ ExtractedFrom(FALSE)
    /\ SelectedRows = Plain
    /\ request.config.headerRow = 2
    /\ "dataStartRow" \in DOMAIN request.config /\ request.config.dataStartRow = 3
    /\ response.result.columns = <<<<"1">>, <<" ", "x">>>>
    /\ response.rows = <<2, 3>>


\* The omitHeader branch, with the names of the columns told by Named.
OmitHeaderBranch(named) ==
    LET json == SelectedRows
        width == IF Len(json) = 0 THEN 0 ELSE Len(json[1])
    IN  /\ ~response.threw
        /\ Len(response.result.columns) = Min(width, 100)
        /\ named
        /\ Distinct(response.result.columns)
        /\ response.rows =
              IndicesFrom(IF "dataStartRow" \in DOMAIN request.config
                          THEN request.config.dataStartRow - 1 ELSE 0, Len(json))
        /\ Len(json) = 0 => response.result.data = <<>>

\* C25: with omitHeader true columns has min(width of the first row, 100)
\* entries, the i-th being the i-th of the names A, B, C, ..., all distinct;
\* the data rows start at index dataStartRow - 1, or 0 when it is unset; an
\* empty sheet gives empty data and no error.  Of the names after Z it is
\* only asked that they are made of the letters A to Z.
C25_OmitHeaderBranch ==
    ExtractedFrom(TRUE) =>
        OmitHeaderBranch(
            \A i \in 1..Len(response.result.columns) :
                /\ i <= 26 => response.result.columns[i] = <<UpperCase[i]>>
                /\ \A at \in 1..Len(response.result.columns[i]) :
                      \E letter \in 1..26 :
                          response.result.columns[i][at] = UpperCase[letter])

\* The same, for the first 26 columns only.
C25_OmitHeaderBranchUpToZ ==
    ExtractedFrom(TRUE) =>
        OmitHeaderBranch(
            \A i \in 1..Len(response.result.columns) :
                i <= 26 => response.result.columns[i] = <<UpperCase[i]>>)


\* The extraction has worked on the sheet of that name: what it returned or
\* threw is what it returns or throws for a workbook of that sheet alone.
ConvertedSheet(name) ==
    LET alone == processSpreadsheetAsync(
                     OneSheet(request.workbook.Sheets[name]),
                     Spread(request.config, [sheet |-> [t |-> "number", v |-> 0]]))
    IN  IF alone.threw THEN Rejected(alone.message)
        ELSE /\ ~response.threw
             /\ response.sheetName = name
             /\ response.result = alone.result

\* The selection of the sheet, where a number below 0 is answered as below
\* tells.
SheetResolution(belowZero) ==
    LET names == request.workbook.SheetNames
        selector == request.config.sheet
    IN  IF selector.t = "number"
        THEN IF selector.v >= Len(names) THEN Rejected("Invalid sheet selection")
             ELSE IF selector.v < 0 THEN belowZero
             ELSE ConvertedSheet(names[selector.v + 1])
        ELSE IF \A i \in 1..Len(names) : names[i] # selector.v
             THEN Rejected("Named sheet not found")
             ELSE ConvertedSheet(selector.v)

ExtractDone == response # None /\ response.op = "extract"

\* C26 (as stated): a numeric selector not below the number of sheets
\* rejects with 'Invalid sheet selection', a name that is not in the list of
\* sheet names rejects with 'Named sheet not found', and every other
\* selector resolves to a sheet, which is the one converted to rows.
C26_SheetResolutionAsStated ==
    ExtractDone =>
        SheetResolution(/\ ~Rejected("Sheet not found")
                        /\ ~Rejected("Invalid sheet selection")
                        /\ ~Rejected("Named sheet not found"))

\* C26: the same, where a numeric selector below 0 rejects with 'Sheet not
\* found'.
C26_SheetResolution == ExtractDone => SheetResolution(Rejected("Sheet not found"))

C26_Witness ==
    /\ ExtractDone
    /\ request.workbook = TwoSheets
    /\ request.config.sheet = [t |-> "number", v |-> 1]
    /\ ~response.threw
    /\ response.sheetName = "Data"
    /\ response.result.columns = <<<<"a">>>>


\* The cell a row object holds for a name, undefined if it has no such key.
CellOf(object, name) == IF name \in DOMAIN object THEN object[name] ELSE UndefinedCell

\* The projection of the rows on the columns with those indices: the cell
\* of the row at the index of the column, or the empty string where the row
\* has none, with no other key.
Projected(indices) ==
    \A k \in 1..Len(response.result.data) :
        LET row == SelectedRows[response.indices[k] + 1]
            object == response.result.data[k]
        IN  /\ \A i \in indices :
                  CellOf(object, response.result.columns[i]) =
                      IF i <= Len(row) /\ row[i].t \notin {"null", "undefined"}
                      THEN row[i] ELSE StringCell(<<>>)
            /\ DOMAIN object \subseteq Range(response.result.columns)

ProjectedRaw ==
    /\ Extracted
    /\ ~request.config.sanitizeData
    /\ Distinct(response.result.columns)

\* C27: with sanitizeData off and distinct column names every row of data
\* holds, under the name of column i, the raw cell i of its row, or the
\* empty string when the row has no such cell or the cell is null or
\* undefined, and holds nothing else.
C27_PositionalProjection ==
    ProjectedRaw => Projected(1..Len(response.result.columns))

\* The same for the columns that are not named __proto__.
C27_PositionalProjectionOfOwnKeys ==
    ProjectedRaw =>
        Projected({i \in 1..Len(response.result.columns) :
                      response.result.columns[i] # ProtoName})


\* C28: in every configuration data is made of exactly the first
\* min(previewRowCount, number of data rows) data rows, in the order of the
\* sheet, and so of no more than previewRowCount rows.
C28_PreviewTruncation ==
    Extracted =>
        /\ response.indices =
              SubSeq(response.rows, 1,
                     Min(request.config.previewRowCount, Len(response.rows)))
        /\ Len(response.result.data) = Len(response.indices)

\* The same for a previewRowCount above 0, and for one of 0 without metrics.
C28_PreviewTruncationOfPositiveCount ==
    (/\ Extracted
     /\ \/ request.config.previewRowCount > 0
        \/ request.config.previewRowCount = 0 /\ ~request.config.enableMetrics) =>
        /\ response.indices =
              SubSeq(response.rows, 1,
                     Min(request.config.previewRowCount, Len(response.rows)))
        /\ Len(response.result.data) = Len(response.indices)


-----------------------------------------------------------------------------
(* Reading the file (lines 123-162 and 206-223).  While the read is under  *)
(* way, response holds the promise of the read with the closure of         *)
(* readFileChunked (chunks, offset), the FileReaders that have not fired    *)
(* yet (pending), the setTimeout(readNextChunk, 10) timers that have not   *)
(* fired yet (timers) and what processSpreadsheetAsync did with the        *)
(* outcome (service).  started lists the reads in the order they were      *)
(* started.  A file is the sequence of its bytes.                          *)

MaxSize == 4
MaxChunk == 3
MaxReads == 6

\* file.slice(start, end): a negative position counts from the end.
SliceOf(bytes, start, end) ==
    LET relative(at) == IF at < 0 THEN Max(Len(bytes) + at, 0) ELSE Min(at, Len(bytes))
    IN  SubSeq(bytes, relative(start) + 1, Max(relative(end), relative(start)))

\* The buffer lines 141-151 build of the chunks.
RECURSIVE Combined(_)
Combined(chunks) ==
    IF chunks = <<>> THEN <<>> ELSE Head(chunks) \o Combined(Tail(chunks))

\* The FileReader readNextChunk starts (lines 129-130 and 157).
SliceRead(offset, chunkSize) ==
    [method |-> "readAsArrayBuffer", start |-> offset, end |-> offset + chunkSize]

WholeRead == [method |-> "readAsBinaryString"]

\* What a FileReader loads.
ResultOf(bytes, read) ==
    IF read.method = "readAsArrayBuffer" THEN SliceOf(bytes, read.start, read.end)
    ELSE bytes

FilesToRead == {[i \in 1..size |-> i] : size \in 0..MaxSize}

PerformanceConfigs == [enableChunkedReading : BOOLEAN, chunkSize : -1..MaxChunk]

InitRead ==
    /\ Mounted(ServiceProps)
    /\ Loaded(FALSE, [maxFilesPerWindow |-> MaxPerWindow, rateLimitWindow |-> MaxWindow])
    /\ request \in [op : {"read"}, file : FilesToRead, performance : PerformanceConfigs]
    /\ response = None

ReadFrame ==
    UNCHANGED <<hookVars, rateLimitState, now, isTestMode, security, admitted,
                settled, request>>

\* Lines 206-223: the read processSpreadsheetAsync starts.
StartRead ==
    /\ request.op = "read"
    /\ response = None
    /\ LET chunked == /\ request.performance.enableChunkedReading
                      /\ Len(request.file) > request.performance.chunkSize
           read == IF chunked THEN SliceRead(0, request.performance.chunkSize)
                   ELSE WholeRead
       IN  response' = [op |-> "read",
                        mode |-> IF chunked THEN "chunked" ELSE "direct",
                        chunks |-> <<>>, offset |-> 0,
                        pending |-> {read}, timers |-> 0, started |-> <<read>>,
                        promise |-> [state |-> "pending"],
                        service |-> [state |-> "pending"]]
    /\ ReadFrame

\* data = await ...: processSpreadsheetAsync goes on to XLSX.read with the
\* data (line 226), or rejects, and SpreadSheetService's catch answers.
Awaited(promise) ==
    CASE promise.state = "resolved" -> [state |-> "XLSX.read", data |-> promise.value]
      [] promise.state = "rejected" ->
           [state |-> "rejected",
            reason |-> Caught([thrown |-> TRUE, isError |-> promise.isError], isTestMode)]
      [] OTHER -> [state |-> "pending"]

\* reader.onload of a chunk (lines 132-154).
ChunkLoads(read) ==
    LET result == ResultOf(request.file, read)
        chunks == Append(response.chunks, result)
        offset == response.offset + request.performance.chunkSize
        grown == [response EXCEPT !.pending = @ \ {read},
                                  !.chunks = chunks, !.offset = offset]
    IN  IF offset < Len(request.file)
        THEN response' = [grown EXCEPT !.timers = @ + 1]
        ELSE LET promise == IF response.promise.state = "pending"
                            THEN [state |-> "resolved", value |-> Combined(chunks)]
                            ELSE response.promise
             IN  response' = [grown EXCEPT !.promise = promise,
                                           !.service = Awaited(promise)]

\* reader.onload of the direct read (lines 213-219).
FileLoads(read) ==
    LET result == ResultOf(request.file, read)
        promise == IF result # <<>>
                   THEN [state |-> "resolved", value |-> result]
                   ELSE [state |-> "rejected", isError |-> TRUE,
                         message |-> "Failed to read file"]
    IN  response' = [response EXCEPT !.pending = @ \ {read},
                                     !.promise = promise,
                                     !.service = Awaited(promise)]

ReaderLoads ==
    /\ request.op = "read" /\ response # None
    /\ \E read \in response.pending :
          IF read.method = "readAsArrayBuffer" THEN ChunkLoads(read) ELSE FileLoads(read)
    /\ ReadFrame

\* A reader.onerror that rejects and reads the next chunk all the same.
ReaderFailsAndReadsOn ==
    /\ request.op = "read" /\ response # None
    /\ \E read \in response.pending :
          LET promise == [state |-> "rejected", isError |-> FALSE,
                          event |-> "error", target |-> read]
          IN  response' = [response EXCEPT !.pending = @ \ {read},
                                           !.timers = @ + 1,
                                           !.promise = promise,
                                           !.service = Awaited(promise)]
    /\ ReadFrame

\* reader.onerror = reject (lines 156 and 220): the promise rejects with the
\* error event of the reader, which is not an Error.
ReaderFails ==
    /\ request.op = "read" /\ response # None
    /\ \E read \in response.pending :
          LET promise == IF response.promise.state = "pending"
                         THEN [state |-> "rejected", isError |-> FALSE,
                               event |-> "error", target |-> read]
                         ELSE response.promise
          IN  response' = [response EXCEPT !.pending = @ \ {read},
                                           !.promise = promise,
                                           !.service = Awaited(promise)]
    /\ ReadFrame

\* setTimeout(readNextChunk, 10) fires (line 138): readNextChunk.
readNextChunk ==
    /\ request.op = "read" /\ response # None
    /\ response.timers > 0
    /\ Len(response.started) < MaxReads
    /\ LET read == SliceRead(response.offset, request.performance.chunkSize)
       IN  response' = [response EXCEPT !.timers = @ - 1,
                                        !.pending = @ \cup {read},
                                        !.started = Append(@, read)]
    /\ ReadFrame

NextRead == StartRead \/ ReaderLoads \/ ReaderFails \/ readNextChunk

SpecRead == InitRead /\ [][NextRead]_vars


Reading == response # None /\ response.op = "read"

\* The read goes as chunked reading should: slices of chunkSize bytes one
\* after the other from offset 0 upwards, one at a time, and a resolved
\* buffer that is the file; or else one read of the whole file.
ReadsInOrder ==
    IF /\ request.performance.enableChunkedReading
       /\ Len(request.file) > request.performance.chunkSize
    THEN /\ response.mode = "chunked"
         /\ \A k \in 1..Len(response.started) :
               /\ response.started[k] =
                     SliceRead((k - 1) * request.performance.chunkSize,
                               request.performance.chunkSize)
               /\ k > 1 => response.started[k].start > response.started[k - 1].start
         /\ Cardinality(response.pending) <= 1
         /\ response.promise.state = "resolved" =>
               /\ Len(response.promise.value) = Len(request.file)
               /\ response.promise.value = request.file
    ELSE /\ response.mode = "direct"
         /\ response.started = <<WholeRead>>

\* C31: when chunked reading is enabled and the file is larger than
\* chunkSize the file is read in consecutive slices of chunkSize bytes in
\* increasing offset order, at most one read outstanding, and the resolved
\* buffer is the file byte for byte; in every other case there is exactly
\* one direct read of the whole file.
C31_ChunkedRead == Reading => ReadsInOrder

\* The same for a chunkSize of at least 1.
C31_ChunkedReadOfPositiveSize ==
    (Reading /\ request.performance.chunkSize >= 1) => ReadsInOrder


SliceBound(size, chunkSize) ==
    IF chunkSize > 0 THEN (size + chunkSize - 1) \div chunkSize ELSE Max(size, 1)

\* The chunked read has settled or still has a read or a timer to wait for,
\* and has started no more reads than the bound tells.
SettlesWithin(bound) ==
    /\ Len(response.started) <= bound
    /\ (response.pending = {} /\ response.timers = 0) =>
          response.promise.state # "pending"
    /\ Len(response.chunks) >= bound => response.promise.state # "pending"

\* C39: a chunked read settles after at most ceil(file.size / chunkSize)
\* slice reads, for every chunkSize the configuration accepts and every
\* outcome of the slice reads.
C39_ChunkedReadSettles ==
    (Reading /\ response.mode = "chunked") =>
        SettlesWithin(SliceBound(Len(request.file), request.performance.chunkSize))

\* The same for a chunkSize of at least 1.
C39_ChunkedReadSettlesOfPositiveSize ==
    (Reading /\ response.mode = "chunked" /\ request.performance.chunkSize >= 1) =>
        SettlesWithin(SliceBound(Len(request.file), request.performance.chunkSize))


-----------------------------------------------------------------------------
(* Isolation of the mappings of different files.                           *)

InitIsolate ==
    \E p \in [maxConcurrentFiles : {1}, enableMetrics : {FALSE},
              onAnnounce : {TRUE}, options : OptionLists] :
        Constructed(p)

\* The calls up to the last call of onFinish the model follows.
NextIsolate ==
    /\ Len(finished) < MaxFinished
    /\ \/ \E record \in Records :
              /\ Len(UpdateOrCreateOn(map, map, record)) <= MaxMap
              /\ updateOrCreate(record)
       \/ \E value \in Values, fileName \in FileNames \cup {Undefined} :
              save(value, fileName)
       \/ \E file \in FileNames : handleFileFinish(DataOf(file))

SpecIsolate == InitIsolate /\ [][NextIsolate]_vars

\* The map without the entries that name another file.
WithoutOthers(list, file) ==
    SelectSeq(list, LAMBDA item : Get(item, "fileName") \in {Undefined, file})

\* The entry names another file.
OfAnother(item, file) == Get(item, "fileName") \in FileNames \ {file}

\* C33: an entry of map that names file G has no part in handleFileFinish
\* for a file F other than G: the required options it reports and the map
\* it hands to onFinish are what they are without the entries of other
\* files, none of which is in that map, whatever updateOrCreate and save
\* calls made the map.
C33_FilesIsolated ==
    [][\A file \in FileNames :
          handleFileFinish(DataOf(file)) =>
              LET own == WithoutOthers(map, file)
              IN  /\ errors' = FileFinishErrors(own, DataOf(file))
                  /\ \A n \in 1..Len(errors') :
                        ~\E j \in 1..Len(own) :
                            /\ own[j].value = errors'[n].option.value
                            /\ IsSaved(own[j])
                            /\ \A h \in 1..(j - 1) : own[h].value # own[j].value
                  /\ finished' # finished =>
                        /\ \A o \in Range(props.options) :
                              o.required => \E j \in 1..Len(own) :
                                  own[j].value = o.value /\ IsSaved(own[j])
                        /\ finished'[Len(finished')].map =
                              [j \in 1..Len(own) |->
                                  [field |-> own[j].field, value |-> own[j].value]]]_vars

\* onFinish was called for a.csv with one mapping while map also holds a
\* saved mapping of b.csv.
C33_Witness ==
    /\ Len(finished) = 1
    /\ finished[1].name = "a.csv"
    /\ Len(finished[1].map) = 1
    /\ Len(map) = 2
    /\ \E j \in 1..Len(map) : OfAnother(map[j], "a.csv") /\ IsSaved(map[j])


-----------------------------------------------------------------------------
(* The counter of the calls in flight and reset().                         *)

\* C34: activeProcessingCount is never negative and is the number of
\* SpreadSheetService calls handleFiles started that have not settled, under
\* every interleaving of handleFiles, settling calls and reset(), so that no
\* more than maxConcurrentFiles calls are ever in flight.
C34_CounterCountsCalls ==
    /\ activeProcessingCount >= 0
    /\ activeProcessingCount = Cardinality(calls)
    /\ Cardinality(calls) <= Max(props.maxConcurrentFiles, 0)


\* What reset() leaves of the batch state.
Cleared ==
    /\ processedFiles = <<>>
    /\ errors = <<>>
    /\ performanceMetrics = <<>>
    /\ fileProcessingStates = <<>>
    /\ ~isProcessing

\* C35: a reset() is durable: the batch state it has cleared stays cleared
\* until the next handleFiles call, also when calls of the batch that was in
\* flight settle after the reset.  (Before the first handleFiles call the
\* state is the same as after a reset.)
C35_ResetDurable ==
    [][(Cleared /\ ~\E files \in Batches(MaxOverlapFiles) : handleFiles(files))
          => Cleared']_vars


-----------------------------------------------------------------------------
(* Two updateOrCreate calls of one handler: both close over the map of the  *)
(* last render, and React applies their state updates one after the other. *)

updateOrCreateTwice(first, second) ==
    LET index == FindIndex(map, second.value, Get(second, "fileName"))
    IN  /\ map' = UpdateOrCreateOn(map, UpdateOrCreateOn(map, map, first), second)
        /\ IF index = 0
           THEN Announce(<<"Field mapping created", second.field, second.value>>, "success")
           ELSE Announce(<<"Field mapping updated", second.field, second.value>>, "info")
        /\ UNCHANGED <<errors, processedFiles, fileProcessingStates, isProcessing,
                       performanceMetrics, activeProcessingCount, props, queues,
                       calls, finished, serviceVars>>

InitBatched ==
    \E p \in [maxConcurrentFiles : {1}, enableMetrics : {FALSE},
              onAnnounce : BOOLEAN, options : {Options}] :
        Constructed(p)

NextBatched ==
    \/ \E record \in Records :
           /\ Len(UpdateOrCreateOn(map, map, record)) <= MaxMap
           /\ updateOrCreate(record)
    \/ \E first, second \in Records :
           /\ Len(map) < MaxMap
           /\ updateOrCreateTwice(first, second)
    \/ \E value \in Values, fileName \in FileNames \cup {Undefined} :
           save(value, fileName)

SpecBatched == InitBatched /\ [][NextBatched]_vars

\* C36: two updateOrCreate calls for the same (value, fileName) made against
\* the same snapshot of map leave the map that the two calls leave when the
\* second is made after the first is committed: one entry for the pair,
\* holding the second record.
C36_BatchedLikeSequential ==
    [][\A first, second \in Records :
          (SameKey(first, second) /\ updateOrCreateTwice(first, second)) =>
              LET committed == UpdateOrCreateOn(map, map, first)
              IN  /\ map' = UpdateOrCreateOn(committed, committed, second)
                  /\ Cardinality({j \in 1..Len(map') : map'[j] = second}) = 1]_vars


-----------------------------------------------------------------------------
(* save and the entry it means.                                            *)

\* C37: when map holds an entry whose value and fileName are the arguments
\* of save(value, fileName), it is such an entry whose saved flag the call
\* toggles, and no other entry changes, in every map updateOrCreate can
\* make.
C37_SaveTogglesExactEntry ==
    [][\A value \in Values, fileName \in FileNames \cup {Undefined} :
          (/\ save(value, fileName)
           /\ \E j \in 1..Len(map) :
                 map[j].value = value /\ Get(map[j], "fileName") = fileName) =>
              \E j \in 1..Len(map) :
                  /\ map[j].value = value /\ Get(map[j], "fileName") = fileName
                  /\ map' = [map EXCEPT ![j] =
                                Spread(map[j], [saved |-> ~IsSaved(map[j])])]]_vars


-----------------------------------------------------------------------------
(* Choosing a column again.                                                *)

\* The option is among those the errors report.
Reported(errs, option) == \E n \in 1..Len(errs) : errs[n].option = option

\* C38: updateOrCreate with a record that carries no saved flag leaves the
\* entry it writes unsaved, also where it replaces a saved entry, and a
\* required option of that value then blocks handleFileFinish for every
\* file the record applies to, until save is called again.
C38_RechosenIsUnsaved ==
    [][\A record \in Records :
          updateOrCreate(record) =>
              LET index == IF FindIndex(map, record.value, Get(record, "fileName")) = 0
                           THEN Len(map')
                           ELSE FindIndex(map, record.value, Get(record, "fileName"))
              IN  /\ map'[index] = record
                  /\ ~IsSaved(map'[index])
                  /\ \A file \in FileNames, option \in Range(props.options) :
                        (/\ option.required
                         /\ option.value = record.value
                         /\ Get(record, "fileName") \in {Undefined, file}) =>
                            Reported(FileFinishErrors(map', DataOf(file)), option)]_vars

\* A column was chosen again for the only mapping, which is unsaved now, and
\* handleFileFinish for a.csv would report the option.
C38_Witness ==
    /\ announced.message = <<"Field mapping updated", "Contact", "name">>
    /\ map = <<[field |-> "Contact", value |-> "name", fileName |-> "a.csv"]>>
    /\ Reported(FileFinishErrors(map, DataOf("a.csv")), Options[1])


-----------------------------------------------------------------------------
(* The announcement that ends a batch.                                     *)

\* C40: when the batch has settled, 'All N files processed successfully' is
\* announced only if no file of the batch ended in status error; otherwise
\* the announcement is 'Processing completed: s successful, e failed' with
\* the numbers of completed and failed files.
C40_FinalAnnouncement ==
    [][\A q \in queues :
          (Join(q) /\ props.onAnnounce) =>
              LET s == CountStatus(fileProcessingStates, "completed")
                  e == CountStatus(fileProcessingStates, "error")
              IN  announced'.message =
                      IF e = 0
                      THEN <<"All files processed successfully", Len(q.files)>>
                      ELSE <<"Processing completed", s, e>>]_vars


=============================================================================
